---------------------------- MODULE Spec2Model ----------------------------
(***************************************************************************)
(* csv2latex: the configuration-driven pipeline that turns a table into a  *)
(* LaTeX fragment (ConfigManager, DataProcessor, LatexFormatter).          *)
(*                                                                         *)
(* Python strings are sequences of one-character strings, so that          *)
(* startswith, endswith, split, capitalize, str() and fnmatch are computed *)
(* character by character.  LaTeX markup emitted by the formatter          *)
(* ("\\underline{", "$", ...) is one element of the sequence.              *)
(* A Python dict is a function whose DOMAIN is its key set; {} is <<>>.    *)
(***************************************************************************)
EXTENDS Integers, Sequences, FiniteSets, TLC

VARIABLES
    user_config,      \* ConfigManager._config (the user layer)
    null_config,      \* what of ConfigManager._config is None
    default_config,   \* ConfigManager._default_config
    config_path,      \* ConfigManager.config_path
    df,               \* the table the pipeline currently holds
    call,             \* the last operation and its arguments
    result,           \* what the last operation returned
    last_min_values,  \* the minima _calculate_min_values stored in the last render
    steps             \* filter and sort steps applied to the table since it was loaded

vars == <<user_config, null_config, default_config, config_path, df, call, result, last_min_values, steps>>

-----------------------------------------------------------------------------
(* Bounds of the model *)

\* rows of a loaded table
MaxRows == 3
\* decimal places offered to generate_latex_table: 1..MaxDecimals
MaxDecimals == 2
\* words of a column name offered to get_pretty_column_name
MaxWords == 3
\* filter and sort steps applied to a loaded table before it is rendered
MaxSteps == 2
\* passes of the while loop of _build_table_rows followed for one cell
MaxLoop == 4

-----------------------------------------------------------------------------
(* Python strings *)

Lower == <<"a","b","c","d","e","f","g","h","i","j","k","l","m",
           "n","o","p","q","r","s","t","u","v","w","x","y","z">>
Upper == <<"A","B","C","D","E","F","G","H","I","J","K","L","M",
           "N","O","P","Q","R","S","T","U","V","W","X","Y","Z">>
DigitChars == <<"0","1","2","3","4","5","6","7","8","9">>

\* str.upper / str.lower of one character
UpperChar(c) ==
    IF \E i \in 1..26 : Lower[i] = c
    THEN Upper[CHOOSE i \in 1..26 : Lower[i] = c] ELSE c
LowerChar(c) ==
    IF \E i \in 1..26 : Upper[i] = c
    THEN Lower[CHOOSE i \in 1..26 : Upper[i] = c] ELSE c

\* s.startswith(p), s.endswith(p)
StartsWith(s, p) == Len(p) <= Len(s) /\ SubSeq(s, 1, Len(p)) = p
EndsWith(s, p) ==
    Len(p) <= Len(s) /\ SubSeq(s, Len(s) - Len(p) + 1, Len(s)) = p

\* s[n:]
DropFirst(s, n) == SubSeq(s, n + 1, Len(s))

\* word.capitalize(): first character upper-cased, every other lower-cased
Capitalize(w) ==
    [i \in 1..Len(w) |-> IF i = 1 THEN UpperChar(w[i]) ELSE LowerChar(w[i])]

\* s.split(sep) for a one-character separator: the list of fields
RECURSIVE Split(_, _)
Split(s, sep) ==
    IF \A i \in 1..Len(s) : s[i] # sep THEN <<s>>
    ELSE LET k == CHOOSE i \in 1..Len(s) :
                      s[i] = sep /\ \A j \in 1..(i - 1) : s[j] # sep
         IN  <<SubSeq(s, 1, k - 1)>> \o Split(DropFirst(s, k), sep)

\* sep.join(parts)
RECURSIVE Join(_, _)
Join(parts, sep) ==
    IF parts = <<>> THEN <<>>
    ELSE IF Len(parts) = 1 THEN parts[1]
    ELSE parts[1] \o sep \o Join(Tail(parts), sep)

\* the decimal digits of a natural number
RECURSIVE Digits(_)
Digits(n) ==
    IF n < 10 THEN <<DigitChars[n + 1]>>
    ELSE Digits(n \div 10) \o <<DigitChars[(n % 10) + 1]>>

\* n copies of "0"
Zeros(n) == [i \in 1..n |-> "0"]

\* fnmatch.fnmatch(value, pattern) on a POSIX system (no case folding):
\* "*" matches any run, "?" one character, "[seq]" / "[!seq]" one character
\* in / not in seq (a "[" with no closing "]" is a literal).
RECURSIVE fnmatch(_, _)
fnmatch(value, pattern) ==
    IF pattern = <<>> THEN value = <<>>
    ELSE LET p == Head(pattern) IN
         IF p = "*" THEN
            \E k \in 0..Len(value) : fnmatch(DropFirst(value, k), Tail(pattern))
         ELSE IF p = "?" THEN
            value # <<>> /\ fnmatch(Tail(value), Tail(pattern))
         ELSE IF p = "[" /\ \E j \in 3..Len(pattern) : pattern[j] = "]" THEN
            LET close == CHOOSE j \in 3..Len(pattern) :
                             pattern[j] = "]" /\ \A i \in 3..(j - 1) : pattern[i] # "]"
                neg   == pattern[2] = "!" /\ close > 3
                first == IF neg THEN 3 ELSE 2
                inset == value # <<>> /\ \E i \in first..(close - 1) : pattern[i] = Head(value)
            IN  /\ value # <<>>
                /\ (inset # neg)
                /\ fnmatch(Tail(value), DropFirst(pattern, close))
         ELSE value # <<>> /\ Head(value) = p /\ fnmatch(Tail(value), Tail(pattern))

-----------------------------------------------------------------------------
(* Python values held by a table cell: int, float or str.                  *)
(* A float is n/10 + e * 4e-11 with e in 0..3: tenths are what formatting  *)
(* shows, the e steps are differences far below the printed digits that    *)
(* only the 1e-10 tolerance of the minimum comparison can see.             *)

IntV(n)      == [t |-> "int",   n |-> n, e |-> 0, s |-> <<>>]
FloatV(n, e) == [t |-> "float", n |-> n, e |-> e, s |-> <<>>]
TextV(s)     == [t |-> "str",   n |-> 0, e |-> 0, s |-> s]

\* isinstance(value, (int, float))
IsNumber(v) == v.t \in {"int", "float"}

\* the number in tenths (an int n is 10 * n tenths)
Tenths(v) == IF v.t = "int" THEN 10 * v.n ELSE v.n

\* float.is_integer()
IsInteger(v) == v.t = "float" /\ v.n % 10 = 0 /\ v.e = 0

\* int(value), float(value)
ToInt(v)   == IntV(Tenths(v) \div 10)
ToFloat(v) == FloatV(Tenths(v), v.e)

\* str(value): "2022" for an int, the shortest repr for a float
\* ("2022.0", "0.3", "0.30000000004"), the text itself for a str
PyStr(v) ==
    IF v.t = "str" THEN v.s
    ELSE IF v.t = "int" THEN Digits(v.n)
    ELSE Digits(v.n \div 10) \o <<".">> \o <<DigitChars[(v.n % 10) + 1]>>
         \o (IF v.e = 0 THEN <<>>
             ELSE Zeros(8) \o (IF 4 * v.e < 10 THEN <<"0">> ELSE <<>>)
                  \o Digits(4 * v.e))

\* a <= b on numbers
NumLeq(a, b) ==
    \/ Tenths(a) < Tenths(b)
    \/ Tenths(a) = Tenths(b) /\ a.e <= b.e

\* float('nan'): the minimum of an empty column
NaN == [t |-> "nan", n |-> 0, e |-> 0, s |-> <<>>]

\* abs(a - b) < 1e-10: the same tenths and e steps (4e-11 each) less than
\* 1e-10 apart; no number is close to nan
Close(a, b) ==
    /\ a.t # "nan" /\ b.t # "nan"
    /\ Tenths(a) = Tenths(b)
    /\ (IF a.e >= b.e THEN a.e - b.e ELSE b.e - a.e) * 4 < 10


-----------------------------------------------------------------------------
(* Configuration values.  A YAML boolean or null is the one-element        *)
(* sequence True, False or None, so that it can be compared with {}, the   *)
(* empty sequence, which is what _get_config_value returns for a key that  *)
(* neither layer defines.  An ordered mapping whose order matters          *)
(* (suffixes) is a sequence of <<key, value>> pairs.                       *)

True  == <<"True">>
False == <<"False">>
None  == <<"None">>

\* truth value of a bool, None or {} where an `if` tests it
Truthy(x) == x = True

\* dict.get(k, dflt)
Get(d, k, dflt) == IF k \in DOMAIN d THEN d[k] ELSE dflt

\* truth value of a dict: non-empty
NonEmpty(d) == DOMAIN d # {}

\* column names
c_model == <<"m","o","d","e","l">>
c_score == <<"s","c","o","r","e">>
c_year  == <<"y","e","a","r">>
c_default == <<"d","e","f","a","u","l","t">>

\* the rank of a value no sort order lists
DefaultRank == 999999

-----------------------------------------------------------------------------
(* ConfigManager.  self is [config, default_config]: the user layer and    *)
(* the default layer.                                                      *)

\* What yaml.safe_load gave as None: the whole document (an empty file), or
\* the values of the top-level keys named.  A None has no dictionary type,
\* so the user layer holds {} under such a key and the key is named here.
Nulls(document, keys) == [document |-> document, keys |-> keys]
NoNulls == Nulls(FALSE, {})

\* the hard-coded defaults used when default_config.yaml is absent
HardcodedDefaults ==
    [ default_decimal_places |-> 3,
      table_style |-> "hline",
      underline_min_values |-> False,
      column_underline |-> (c_default :> False),
      column_formats |-> <<>>,
      display_names |-> <<>>,
      model_order |-> <<>>,
      latex_model_names |-> <<>>,
      ignored_models |-> <<>>,
      ignored_models_in_calculation |-> <<>>,
      model_patterns |-> [suffixes |-> <<>>],
      row_sorting |-> [columns |-> <<>>, sort_orders |-> <<>>],
      value_replacements |-> <<>>,
      row_filtering |-> [exclude_values |-> <<>>, exclude_from_calculations |-> <<>>],
      pattern_formatting |-> <<>>,
      extra_columns |-> <<>> ]

\* _get_config_value with what the default layer holds under the key laid
\* under what the user layer holds under it
_get_config_value_MergesNested(self, key) ==
    IF key \in DOMAIN self.config /\ key \in DOMAIN self.default_config
    THEN self.config[key] @@ self.default_config[key]
    ELSE Get(self.config, key, Get(self.default_config, key, <<>>))

_get_config_value(self, key) ==
    Get(self.config, key, Get(self.default_config, key, <<>>))

column_mappings(self)        == _get_config_value(self, "display_names")
latex_model_names(self)      == _get_config_value(self, "latex_model_names")
model_order(self)            == _get_config_value(self, "model_order")
\* set(list): the elements of the list
ignored_models(self) ==
    LET l == _get_config_value(self, "ignored_models")
    IN  {l[i] : i \in DOMAIN l}
ignored_in_calculation(self) ==
    LET l == _get_config_value(self, "ignored_models_in_calculation")
    IN  {l[i] : i \in DOMAIN l}
extra_columns(self)          == _get_config_value(self, "extra_columns")
model_patterns(self)         == _get_config_value(self, "model_patterns")
column_formats(self)         == _get_config_value(self, "column_formats")
underline_min_values(self)   == _get_config_value(self, "underline_min_values")
column_underline(self)       == _get_config_value(self, "column_underline")
row_sorting(self)            == _get_config_value(self, "row_sorting")
value_replacements(self)     == _get_config_value(self, "value_replacements")
row_filtering(self)          == _get_config_value(self, "row_filtering")
pattern_formatting(self)     == _get_config_value(self, "pattern_formatting")

get_model_order(self, model_name) ==
    Get(model_order(self), PyStr(model_name), DefaultRank)

\* the prefixes get_pretty_column_name tries, in this order
PrettyPrefixes ==
    << <<"d","a","t","a","_">>, <<"m","o","d","e","l","_">>,
       <<"r","e","s","u","l","t","_">> >>

\* the for loop over the prefixes, from the i-th on: every prefix that the
\* name (as left by the earlier ones) starts with is cut off
RECURSIVE StripPrefixes(_, _)
StripPrefixes(col_name, i) ==
    IF i > Len(PrettyPrefixes) THEN col_name
    ELSE IF StartsWith(col_name, PrettyPrefixes[i])
         THEN StripPrefixes(DropFirst(col_name, Len(PrettyPrefixes[i])), i + 1)
         ELSE StripPrefixes(col_name, i + 1)

get_pretty_column_name(self, col_name) ==
    IF col_name \in DOMAIN column_mappings(self)
    THEN column_mappings(self)[col_name]
    ELSE LET words == Split(StripPrefixes(col_name, 1), "_")
         IN  Join([i \in 1..Len(words) |-> Capitalize(words[i])], <<" ">>)

get_column_format(self, col_name) == Get(column_formats(self), col_name, None)

get_column_underline(self, col_name) ==
    IF col_name \in DOMAIN column_underline(self)
    THEN column_underline(self)[col_name]
    ELSE IF underline_min_values(self) # None
    THEN underline_min_values(self)
    ELSE Get(column_underline(self), c_default, False)

\* get_sort_order with the legacy rank used for a value the generalized
\* sort order of the column does not list
get_sort_order_UnlistedFallsToLegacy(self, col_name, value) ==
    IF /\ NonEmpty(row_sorting(self))
       /\ "sort_orders" \in DOMAIN row_sorting(self)
       /\ col_name \in DOMAIN row_sorting(self).sort_orders
       /\ PyStr(value) \in DOMAIN row_sorting(self).sort_orders[col_name]
    THEN row_sorting(self).sort_orders[col_name][PyStr(value)]
    ELSE IF col_name = c_model THEN get_model_order(self, value)
    ELSE DefaultRank

get_sort_order(self, col_name, value) ==
    IF /\ NonEmpty(row_sorting(self))
       /\ "sort_orders" \in DOMAIN row_sorting(self)
       /\ col_name \in DOMAIN row_sorting(self).sort_orders
    THEN Get(row_sorting(self).sort_orders[col_name], PyStr(value), DefaultRank)
    ELSE IF col_name = c_model THEN get_model_order(self, value)
    ELSE DefaultRank

\* the candidate keys without the second numeric form
ReplacementCandidates_OwnFormOnly(value) == <<PyStr(value)>>

\* the candidate keys of get_value_replacement, in the order tried
ReplacementCandidates(value) ==
    <<PyStr(value)>>
    \o (IF IsNumber(value)
        THEN IF value.t = "float" /\ IsInteger(value)
             THEN <<PyStr(ToInt(value))>>
             ELSE IF value.t = "int" THEN <<PyStr(ToFloat(value))>>
             ELSE <<>>
        ELSE <<>>)

get_value_replacement(self, col_name, value) ==
    IF col_name \in DOMAIN value_replacements(self)
    THEN LET replacements == value_replacements(self)[col_name]
             candidates   == ReplacementCandidates(value)
             hits == {i \in 1..Len(candidates) : candidates[i] \in DOMAIN replacements}
         IN  IF hits # {}
             THEN replacements[candidates[CHOOSE i \in hits : \A j \in hits : i <= j]]
             ELSE PyStr(value)
    ELSE IF col_name = c_model
    THEN Get(latex_model_names(self), PyStr(value), PyStr(value))
    ELSE PyStr(value)

get_column_patterns(self, col_name) ==
    IF col_name \in DOMAIN pattern_formatting(self)
    THEN pattern_formatting(self)[col_name]
    ELSE IF col_name = c_model THEN model_patterns(self)
    ELSE [suffixes |-> <<>>]

\* any(self._matches_pattern(str(value), pattern) for pattern in excluded)
_matches_pattern(value, pattern) == fnmatch(value, pattern)
MatchesAny(value, excluded) ==
    \E i \in DOMAIN excluded : _matches_pattern(PyStr(value), excluded[i])

should_exclude_value(self, col_name, value) ==
    IF /\ NonEmpty(row_filtering(self))
       /\ "exclude_values" \in DOMAIN row_filtering(self)
       /\ col_name \in DOMAIN row_filtering(self).exclude_values
    THEN MatchesAny(value, row_filtering(self).exclude_values[col_name])
    ELSE IF col_name = c_model THEN PyStr(value) \in ignored_models(self)
    ELSE FALSE

should_exclude_from_calculations(self, col_name, value) ==
    IF /\ NonEmpty(row_filtering(self))
       /\ "exclude_from_calculations" \in DOMAIN row_filtering(self)
       /\ col_name \in DOMAIN row_filtering(self).exclude_from_calculations
    THEN MatchesAny(value, row_filtering(self).exclude_from_calculations[col_name])
    ELSE IF col_name = c_model THEN PyStr(value) \in ignored_in_calculation(self)
    ELSE FALSE

-----------------------------------------------------------------------------
(* Tables (pandas DataFrame): the column names in order, each column's     *)
(* dtype, and the rows in order, each with its index label and its values. *)
(* A label is the row's position when the table was loaded; filtering and  *)
(* sorting keep the labels, so afterwards they differ from the positions.  *)

\* None where a number may stand (an open bound of a range filter)
NoneV == [t |-> "NoneType", n |-> 0, e |-> 0, s |-> <<>>]

Ok(value)    == [status |-> "ok", value |-> value]
Raise(error) == [status |-> error, value |-> <<>>]

IsNumericDtype(dtype) == dtype \in {"float64", "int64"}

\* df[mask] for a boolean mask over the positions
RECURSIVE KeepRows(_, _)
KeepRows(rows, mask) ==
    IF rows = <<>> THEN <<>>
    ELSE (IF Head(mask) THEN <<Head(rows)>> ELSE <<>>)
         \o KeepRows(Tail(rows), Tail(mask))

\* a == b, a < b on numbers
NumEq(a, b) == Tenths(a) = Tenths(b) /\ a.e = b.e
NumLess(a, b) == NumLeq(a, b) /\ ~NumEq(a, b)

\* the filters with greater_than and less_than keeping the bound itself
PassesFilter_NeverStrict(v, info) ==
    CASE info.type = "range" ->
            /\ (info.min.t # "NoneType" => NumLeq(info.min, v))
            /\ (info.max.t # "NoneType" => NumLeq(v, info.max))
      [] info.type = "equal_to" ->
            IF IsNumber(info.value) THEN IsNumber(v) /\ NumEq(v, info.value)
            ELSE PyStr(v) = PyStr(info.value)
      [] info.type = "greater_than" -> NumLeq(info.value, v)
      [] info.type = "less_than" -> NumLeq(v, info.value)
      [] OTHER -> TRUE

\* one row against one ad hoc filter
PassesFilter(v, info) ==
    CASE info.type = "range" ->
            /\ (info.min.t # "NoneType" => NumLeq(info.min, v))
            /\ (info.max.t # "NoneType" => NumLeq(v, info.max))
      [] info.type = "equal_to" ->
            IF IsNumber(info.value) THEN IsNumber(v) /\ NumEq(v, info.value)
            ELSE PyStr(v) = PyStr(info.value)
      [] info.type = "greater_than" -> NumLess(info.value, v)
      [] info.type = "less_than" -> NumLess(v, info.value)
      [] OTHER -> TRUE

\* the filter orders its column's values, which a text value does not allow
NeedsOrder(info) ==
    \/ info.type \in {"greater_than", "less_than"}
    \/ info.type = "range" /\ (info.min.t # "NoneType" \/ info.max.t # "NoneType")

\* the filter evaluates df[col]: a range filter does so once per bound
\* given, and a filter of a type the loop does not know never does
ReadsColumn(info) ==
    \/ info.type \in {"equal_to", "greater_than", "less_than"}
    \/ info.type = "range" /\ (info.min.t # "NoneType" \/ info.max.t # "NoneType")

\* DataProcessor.apply_filters; active_filters is the list of the dict's
\* <<column, filter_info>> items
apply_filters(tbl, active_filters) ==
    LET colset == {tbl.columns[j] : j \in DOMAIN tbl.columns}
        \* what the k-th filter raises, if anything
        Fails(k) ==
            IF active_filters[k][1] \notin colset
            THEN (IF ReadsColumn(active_filters[k][2]) THEN "KeyError" ELSE "no")
            ELSE IF /\ NeedsOrder(active_filters[k][2])
                    /\ \E i \in DOMAIN tbl.rows :
                           ~IsNumber(tbl.rows[i].v[active_filters[k][1]])
            THEN "TypeError"
            ELSE "no"
        failing == {k \in DOMAIN active_filters : Fails(k) # "no"}
    IN  IF active_filters = <<>> THEN Ok(tbl)
        ELSE IF failing # {}
        THEN Raise(Fails(CHOOSE k \in failing : \A j \in failing : k <= j))
        ELSE LET mask == [i \in DOMAIN tbl.rows |->
                            \A k \in {j \in DOMAIN active_filters :
                                           active_filters[j][1] \in colset} :
                                PassesFilter(tbl.rows[i].v[active_filters[k][1]],
                                             active_filters[k][2])]
             IN  Ok([tbl EXCEPT !.rows = KeepRows(tbl.rows, mask)])

\* order of the characters that occur in text values (their code points)
CharOrder ==
    <<" ", "-", ".">> \o DigitChars \o Upper \o <<"_">> \o Lower
CharRank(c) == CHOOSE i \in DOMAIN CharOrder : CharOrder[i] = c

\* a < b on str
RECURSIVE StrLess(_, _)
StrLess(a, b) ==
    IF b = <<>> THEN FALSE
    ELSE IF a = <<>> THEN TRUE
    ELSE IF Head(a) = Head(b) THEN StrLess(Tail(a), Tail(b))
    ELSE CharRank(Head(a)) < CharRank(Head(b))

\* a < b on two values of one column
ValLess(a, b) ==
    IF IsNumber(a) /\ IsNumber(b) THEN NumLess(a, b) ELSE StrLess(PyStr(a), PyStr(b))

\* row a comes strictly before row b under the sort keys from the k-th on
RECURSIVE Before(_, _, _, _)
Before(a, b, sort_keys, k) ==
    IF k > Len(sort_keys) THEN FALSE
    ELSE LET col == sort_keys[k][1]
             asc == sort_keys[k][2]
             lt  == IF asc THEN ValLess(a.v[col], b.v[col]) ELSE ValLess(b.v[col], a.v[col])
             gt  == IF asc THEN ValLess(b.v[col], a.v[col]) ELSE ValLess(a.v[col], b.v[col])
         IN  IF lt THEN TRUE ELSE IF gt THEN FALSE ELSE Before(a, b, sort_keys, k + 1)

\* the orders of the rows that respect the sort keys; ties in any order
SortedOrders(rows, sort_keys) ==
    LET n == Len(rows)
        perms == {p \in [1..n -> 1..n] : \A i, j \in 1..n : i # j => p[i] # p[j]}
    IN  {p \in perms : \A i, j \in 1..n :
             i < j => ~Before(rows[p[j]], rows[p[i]], sort_keys, 1)}

\* the stable order: ties keep their input order
StableOrder(rows, sort_keys) ==
    CHOOSE p \in SortedOrders(rows, sort_keys) :
        \A i, j \in 1..Len(rows) :
            (i < j /\ ~Before(rows[p[i]], rows[p[j]], sort_keys, 1)) => p[i] < p[j]

\* DataProcessor.apply_sort: the tables df.sort_values(by, ascending) can
\* return.  With several keys pandas sorts with a stable lexsort; with one
\* key it uses numpy's quicksort, which does not promise an order of ties.
apply_sort(tbl, sort_keys) ==
    IF sort_keys = <<>> THEN {Ok(tbl)}
    ELSE IF \E k \in DOMAIN sort_keys :
                sort_keys[k][1] \notin {tbl.columns[j] : j \in DOMAIN tbl.columns}
    THEN {Raise("KeyError")}
    ELSE LET orders == IF Len(sort_keys) > 1
                       THEN {StableOrder(tbl.rows, sort_keys)}
                       ELSE SortedOrders(tbl.rows, sort_keys)
         IN  {Ok([tbl EXCEPT !.rows = [i \in DOMAIN tbl.rows |-> tbl.rows[p[i]]]]) :
                 p \in orders}

\* DataProcessor.filter_excluded_values.  The loop clears col_mask.iloc[idx]
\* with idx the row's LABEL: iloc takes a position, so the position equal to
\* the label is cleared, and a label that is no position raises IndexError.
filter_excluded_values(tbl, config) ==
    LET flagged == {r \in DOMAIN tbl.rows : \E j \in DOMAIN tbl.columns :
                       should_exclude_value(config, tbl.columns[j],
                                            tbl.rows[r].v[tbl.columns[j]])}
        labels == {tbl.rows[r].label : r \in flagged}
        n == Len(tbl.rows)
    IN  IF \E l \in labels : l >= n THEN Raise("IndexError")
        ELSE Ok([tbl EXCEPT !.rows =
                    KeepRows(tbl.rows, [i \in 1..n |-> (i - 1) \notin labels])])

\* f'_sort_{col}', the column sort_by_custom_order keeps the ranks of col
\* in, and '_model_order', the one sort_by_model_order keeps its ranks in
SortKeyColumn(col) == <<"_","s","o","r","t","_">> \o col
c_model_order == <<"_","m","o","d","e","l","_","o","r","d","e","r">>

\* df.drop(names, axis=1): the table without the columns named.  The rank
\* columns were assigned to a copy of the table given, where the assignment
\* replaced a column of that name the table had, so dropping them leaves
\* the given table's other columns.
Drop(tbl, names) ==
    [ columns |-> SelectSeq(tbl.columns, LAMBDA c : c \notin names),
      dtype   |-> [c \in DOMAIN tbl.dtype \ names |-> tbl.dtype[c]],
      rows    |-> [i \in DOMAIN tbl.rows |->
                     [label |-> tbl.rows[i].label,
                      v |-> [c \in DOMAIN tbl.rows[i].v \ names |-> tbl.rows[i].v[c]]]] ]

\* row a comes strictly before row b by the get_sort_order ranks of the
\* sort columns from the k-th on
RECURSIVE RankBefore(_, _, _, _, _)
RankBefore(config, a, b, sort_columns, k) ==
    IF k > Len(sort_columns) THEN FALSE
    ELSE LET col == sort_columns[k]
             ra  == get_sort_order(config, col, a.v[col])
             rb  == get_sort_order(config, col, b.v[col])
         IN  IF ra < rb THEN TRUE ELSE IF rb < ra THEN FALSE
             ELSE RankBefore(config, a, b, sort_columns, k + 1)

\* DataProcessor.sort_by_custom_order: the tables
\* df_copy.sort_values(sort_key_columns) can return.  As in apply_sort,
\* several key columns are sorted with the stable lexsort and a single one
\* with quicksort, which does not promise an order of equal ranks.
sort_by_custom_order(tbl, config) ==
    IF ~NonEmpty(row_sorting(config)) \/ "columns" \notin DOMAIN row_sorting(config)
    THEN {Ok(tbl)}
    ELSE LET sort_columns == row_sorting(config).columns
             available_sort_columns ==
                 SelectSeq(sort_columns,
                           LAMBDA col : col \in {tbl.columns[j] : j \in DOMAIN tbl.columns})
             n == Len(tbl.rows)
             perms == {p \in [1..n -> 1..n] : \A i, j \in 1..n : i # j => p[i] # p[j]}
             sorted == {p \in perms : \A i, j \in 1..n :
                           i < j => ~RankBefore(config, tbl.rows[p[j]], tbl.rows[p[i]],
                                                available_sort_columns, 1)}
             stable == {p \in sorted : \A i, j \in 1..n :
                           (i < j /\ ~RankBefore(config, tbl.rows[p[i]], tbl.rows[p[j]],
                                                  available_sort_columns, 1))
                           => p[i] < p[j]}
             orders == IF Len(available_sort_columns) > 1 THEN stable ELSE sorted
             sort_key_columns ==
                 {SortKeyColumn(available_sort_columns[k]) : k \in DOMAIN available_sort_columns}
         IN  IF available_sort_columns = <<>> THEN {Ok(tbl)}
             ELSE {Ok(Drop([tbl EXCEPT !.rows = [i \in DOMAIN tbl.rows |-> tbl.rows[p[i]]]],
                           sort_key_columns)) :
                      p \in orders}

\* DataProcessor.sort_by_model_order with config.get_model_order as the
\* function, as the main window calls it: the tables
\* df_copy.sort_values('_model_order').drop('_model_order', axis=1) can
\* return, the one key sorted with quicksort
sort_by_model_order(tbl, config) ==
    IF \A j \in DOMAIN tbl.columns : tbl.columns[j] # c_model THEN {Ok(tbl)}
    ELSE LET n == Len(tbl.rows)
             order(r) == get_model_order(config, tbl.rows[r].v[c_model])
             perms == {p \in [1..n -> 1..n] : \A i, j \in 1..n : i # j => p[i] # p[j]}
             sorted == {p \in perms : \A i, j \in 1..n : i < j => order(p[i]) <= order(p[j])}
         IN  {Ok(Drop([tbl EXCEPT !.rows = [i \in DOMAIN tbl.rows |-> tbl.rows[p[i]]]],
                      {c_model_order})) :
                 p \in sorted}

-----------------------------------------------------------------------------
(* LatexFormatter.  config is the ConfigManager it was built with.  The    *)
(* per-call underline override is [none, d]: None, or the dict d.          *)

NoOverride     == [none |-> TRUE,  d |-> <<>>]
OverrideWith(d) == [none |-> FALSE, d |-> d]

_should_underline_column_IgnoringOverride(config, col, column_underline_override) ==
    get_column_underline(config, col)

_should_underline_column(config, col, column_underline_override) ==
    IF ~column_underline_override.none /\ col \in DOMAIN column_underline_override.d
    THEN column_underline_override.d[col]
    ELSE get_column_underline(config, col)

\* Series.min(): the least value, nan for no value
SeriesMin(values) ==
    IF values = {} THEN NaN
    ELSE CHOOSE m \in values : \A x \in values : NumLeq(m, x)

\* _calculate_min_values with the loop over cols, not cols[1:]
_calculate_min_values_LeadingToo(config, tbl, cols, column_underline_override) ==
    LET flagged == {r \in DOMAIN tbl.rows : \E j \in DOMAIN tbl.columns :
                       should_exclude_from_calculations(config, tbl.columns[j],
                                                        tbl.rows[r].v[tbl.columns[j]])}
        labels == {tbl.rows[r].label : r \in flagged}
        n == Len(tbl.rows)
        df_for_mins == KeepRows(tbl.rows, [i \in 1..n |-> (i - 1) \notin labels])
        underlined == {cols[k] : k \in {j \in 1..Len(cols) :
                          /\ IsNumericDtype(tbl.dtype[cols[j]])
                          /\ Truthy(_should_underline_column(config, cols[j],
                                                             column_underline_override))}}
    IN  IF \E l \in labels : l >= n THEN Raise("IndexError")
        ELSE Ok([col \in underlined |->
                    SeriesMin({df_for_mins[i].v[col] : i \in DOMAIN df_for_mins})])

\* LatexFormatter._calculate_min_values.  As in filter_excluded_values the
\* mask is cleared with mask.iloc[idx], idx being the row's label.
_calculate_min_values(config, tbl, cols, column_underline_override) ==
    LET flagged == {r \in DOMAIN tbl.rows : \E j \in DOMAIN tbl.columns :
                       should_exclude_from_calculations(config, tbl.columns[j],
                                                        tbl.rows[r].v[tbl.columns[j]])}
        labels == {tbl.rows[r].label : r \in flagged}
        n == Len(tbl.rows)
        df_for_mins == KeepRows(tbl.rows, [i \in 1..n |-> (i - 1) \notin labels])
        underlined == {cols[k] : k \in {j \in 2..Len(cols) :
                          /\ IsNumericDtype(tbl.dtype[cols[j]])
                          /\ Truthy(_should_underline_column(config, cols[j],
                                                             column_underline_override))}}
    IN  IF \E l \in labels : l >= n THEN Raise("IndexError")
        ELSE Ok([col \in underlined |->
                    SeriesMin({df_for_mins[i].v[col] : i \in DOMAIN df_for_mins})])

\* the column specifier counting the selected columns only
_build_table_header_SelectedOnly(config, num_cols) ==
    [i \in 1..num_cols |-> "c"]

\* "c" * k
_build_table_header(config, num_cols) ==
    [i \in 1..(num_cols + Len(extra_columns(config))) |-> "c"]

\* list.insert(position, x): a negative position counts from the end, a
\* position past either end is the end
PyInsert(list, position, x) ==
    LET at == IF position < 0
              THEN (IF Len(list) + position < 0 THEN 0 ELSE Len(list) + position)
              ELSE (IF position > Len(list) THEN Len(list) ELSE position)
    IN  SubSeq(list, 1, at) \o <<x>> \o SubSeq(list, at + 1, Len(list))

\* the loop of _build_table_headers over the extra columns from the k-th on
RECURSIVE InsertExtraHeaders(_, _, _)
InsertExtraHeaders(headers, extras, k) ==
    IF k > Len(extras) THEN headers
    ELSE InsertExtraHeaders(
             IF extras[k].position < Len(headers)
             THEN PyInsert(headers, extras[k].position, extras[k].display_name)
             ELSE headers,
             extras, k + 1)

\* the header cells, each in \textbf{...}
_build_table_headers(config, display_names) ==
    LET headers == InsertExtraHeaders(display_names, extra_columns(config), 1)
    IN  [i \in DOMAIN headers |-> <<"\\textbf{">> \o headers[i] \o <<"}">>]

\* base-b digits of a natural number (format codes b, o, x, X)
HexLower == DigitChars \o <<"a","b","c","d","e","f">>
HexUpper == DigitChars \o <<"A","B","C","D","E","F">>
RECURSIVE DigitsBase(_, _, _)
DigitsBase(n, b, alphabet) ==
    IF n < b THEN <<alphabet[n + 1]>>
    ELSE DigitsBase(n \div b, b, alphabet) \o <<alphabet[(n % b) + 1]>>

\* f"{value:.{dp}f}" for a number: round-half-even at dp = 0, and for
\* dp >= 1 the tenths digit followed by zeros
Fixed(value, dp) ==
    LET t == Tenths(value)
        whole == t \div 10
        d == t % 10
        up == d > 5 \/ (d = 5 /\ (value.e > 0 \/ whole % 2 = 1))
    IN  IF dp = 0 THEN Digits(IF up THEN whole + 1 ELSE whole)
        ELSE Digits(whole) \o <<".", DigitChars[d + 1]>> \o Zeros(dp - 1)

\* the format specs the configurations below use
f_d   == <<"d">>
f_x   == <<"x">>
f_1f  == <<".", "1", "f">>
f_3f  == <<".", "3", "f">>
f_bad == <<"z">>
\* a format the YAML document gives as the number 4, not as a string: the
\* one element is not a character
f_int4 == <<"int:4">>

\* isinstance(column_format, str): every element is one character
IsStr(column_format) == \A i \in DOMAIN column_format : Len(column_format[i]) = 1

\* the test that sends a value through int() before formatting
IsIntegerFormat(column_format) ==
    \/ column_format \in {<<"d">>, <<"b">>, <<"o">>, <<"x">>, <<"X">>}
    \/ EndsWith(column_format, <<"d">>)

\* the try block: f"{int(value):{column_format}}" for an integer format,
\* f"{value:{column_format}}" otherwise.  Defined for the presentation types
\* d, b, o, x, X and .Nf (N one digit); any other spec is taken to be one
\* Python rejects with ValueError, as it does "z".
ApplyFormat(value, column_format) ==
    IF IsIntegerFormat(column_format)
    THEN LET n == ToInt(value).n IN
         CASE column_format = <<"d">> -> Ok(Digits(n))
           [] column_format = <<"b">> -> Ok(DigitsBase(n, 2, DigitChars))
           [] column_format = <<"o">> -> Ok(DigitsBase(n, 8, DigitChars))
           [] column_format = <<"x">> -> Ok(DigitsBase(n, 16, HexLower))
           [] column_format = <<"X">> -> Ok(DigitsBase(n, 16, HexUpper))
           [] OTHER -> Raise("ValueError")
    ELSE IF /\ Len(column_format) = 3
            /\ column_format[1] = "." /\ column_format[3] = "f"
            /\ \E k \in 1..10 : DigitChars[k] = column_format[2]
    THEN Ok(Fixed(value, (CHOOSE k \in 1..10 : DigitChars[k] = column_format[2]) - 1))
    ELSE Raise("ValueError")

\* the prefix of the last configured suffix the text ends with
RECURSIVE FirstSuffixPrefix_LastMatch(_, _, _)
FirstSuffixPrefix_LastMatch(current_value, suffixes, k) ==
    IF k > Len(suffixes) THEN <<>>
    ELSE LET later == FirstSuffixPrefix_LastMatch(current_value, suffixes, k + 1)
         IN  IF later # <<>> THEN later
             ELSE IF EndsWith(current_value, suffixes[k][1]) THEN suffixes[k][2]
             ELSE <<>>

\* the prefix of the first configured suffix the text ends with
RECURSIVE FirstSuffixPrefix(_, _, _)
FirstSuffixPrefix(current_value, suffixes, k) ==
    IF k > Len(suffixes) THEN <<>>
    ELSE IF EndsWith(current_value, suffixes[k][1]) THEN suffixes[k][2]
    ELSE FirstSuffixPrefix(current_value, suffixes, k + 1)

Underlined(text) == <<"\\underline{">> \o text \o <<"}">>
MathMode(text)   == <<"$">> \o text \o <<"$">>

\* _format_cell_value with the numeric branch taken before the replacement
\* is looked at
_format_cell_value_NumberBeforeReplacement(config, value, col, min_values, decimal_places, is_first_column, column_underline_override) ==
    IF IsNumber(value) /\ ~is_first_column THEN MathMode(Fixed(value, decimal_places))
    ELSE get_value_replacement(config, col, value)

\* LatexFormatter._format_cell_value
_format_cell_value(config, value, col, min_values, decimal_places, is_first_column, column_underline_override) ==
    LET replacement   == get_value_replacement(config, col, value)
        column_format == get_column_format(config, col)
        has_format    == column_format # None /\ column_format # <<>>
        custom        == ApplyFormat(value, column_format)
        should_underline ==
            Truthy(_should_underline_column(config, col, column_underline_override))
        at_min == /\ should_underline
                  /\ col \in DOMAIN min_values
                  /\ Close(value, min_values[col])
    IN  IF replacement # PyStr(value) THEN replacement
        ELSE IF is_first_column
        THEN IF has_format /\ IsNumber(value) /\ custom.status = "ok"
             THEN MathMode(IF at_min THEN Underlined(custom.value) ELSE custom.value)
             ELSE PyStr(value)
        ELSE IF IsNumber(value)
        THEN LET formatted_value ==
                     IF has_format /\ custom.status = "ok" THEN custom.value
                     ELSE Fixed(value, decimal_places)
                 column_patterns == get_column_patterns(config, col)
                 prefix == IF "suffixes" \in DOMAIN column_patterns
                           THEN FirstSuffixPrefix(PyStr(value), column_patterns.suffixes, 1)
                           ELSE <<>>
             IN  MathMode(prefix \o (IF at_min THEN Underlined(formatted_value)
                                     ELSE formatted_value))
        ELSE PyStr(value)

\* the values df[cols].iterrows() hands out for one row: when every
\* selected column is numeric and one is float64, pandas holds the row as
\* float64 and an int arrives as a float
RowValues(tbl, cols, row) ==
    LET dtypes == {tbl.dtype[cols[k]] : k \in DOMAIN cols}
        upcast == dtypes \subseteq {"float64", "int64"} /\ "float64" \in dtypes
    IN  [k \in DOMAIN cols |->
            IF upcast THEN ToFloat(row.v[cols[k]]) ELSE row.v[cols[k]]]

\* a rendered cell: its text, and where it comes from
DataCell(col, value, text) == [extra |-> FALSE, col |-> col, value |-> value, text |-> text]
ExtraCell(text)            == [extra |-> TRUE, col |-> <<>>, value |-> NoneV, text |-> text]

\* the while loop: the extra columns placed at current_pos, current_pos + 1, ...
RECURSIVE ExtrasFrom(_, _)
ExtrasFrom(extras, current_pos) ==
    IF \E k \in DOMAIN extras : extras[k].position = current_pos
    THEN LET k == CHOOSE i \in DOMAIN extras :
                      /\ extras[i].position = current_pos
                      /\ \A j \in 1..(i - 1) : extras[j].position # current_pos
         IN  <<ExtraCell(extras[k].value)>> \o ExtrasFrom(extras, current_pos + 1)
    ELSE <<>>

\* one row of _build_table_rows, from the i-th selected column on
RECURSIVE BuildRow(_, _, _, _, _, _, _, _)
BuildRow(config, values, cols, min_values, decimal_places, override, i, current_pos) ==
    LET extras == extra_columns(config) IN
    IF i > Len(cols)
    THEN \* the remaining extra columns
         LET rest == {k \in DOMAIN extras : extras[k].position >= current_pos}
         IN  [j \in 1..Cardinality(rest) |->
                 ExtraCell(extras[CHOOSE k \in rest :
                               Cardinality({m \in rest : m < k}) = j - 1].value)]
    ELSE LET before == ExtrasFrom(extras, current_pos)
             pos    == current_pos + Len(before)
             cell   == DataCell(cols[i], values[i],
                           _format_cell_value(config, values[i], cols[i], min_values,
                                              decimal_places, i = 1, override))
         IN  before \o <<cell>>
             \o BuildRow(config, values, cols, min_values, decimal_places, override,
                         i + 1, pos + 1)

\* the exception that leaves _format_cell_value, "no" for none: the try
\* block catches ValueError and TypeError only, and column_format.endswith
\* on a format that is not a string raises AttributeError
FormatAborts(config, value, col) ==
    LET column_format == get_column_format(config, col)
    IN  IF /\ get_value_replacement(config, col, value) = PyStr(value)
           /\ IsNumber(value)
           /\ column_format # None /\ column_format # <<>>
           /\ ~IsStr(column_format)
        THEN "AttributeError"
        ELSE "no"

\* the exception that ends _build_table_rows, "no" for none
RowsAbort(config, tbl, cols) ==
    LET aborts == {FormatAborts(config, RowValues(tbl, cols, tbl.rows[r])[k], cols[k]) :
                      r \in DOMAIN tbl.rows, k \in DOMAIN cols} \ {"no"}
    IN  IF aborts = {} THEN "no" ELSE CHOOSE e \in aborts : TRUE

_build_table_rows(config, tbl, cols, min_values, decimal_places, override) ==
    [r \in DOMAIN tbl.rows |->
        BuildRow(config, RowValues(tbl, cols, tbl.rows[r]), cols, min_values,
                 decimal_places, override, 1, 0)]

NoColumnsMessage == "Please select at least one column"

\* generate_latex_table with the minimum computation done before the
\* selection is looked at
generate_latex_table_MinimaFirst(config, tbl, selected_columns, decimal_places, override) ==
    LET cols == [k \in DOMAIN selected_columns |-> selected_columns[k][1]]
        mins == _calculate_min_values(config, tbl, cols, override)
    IN  IF mins.status # "ok" THEN Raise(mins.status)
        ELSE IF cols = <<>> THEN Ok(NoColumnsMessage)
        ELSE IF RowsAbort(config, tbl, cols) # "no" THEN Raise(RowsAbort(config, tbl, cols))
        ELSE Ok([ col_spec |-> _build_table_header(config, Len(cols)),
                  headers  |-> _build_table_headers(config,
                                   [k \in DOMAIN selected_columns |-> selected_columns[k][2]]),
                  rows     |-> _build_table_rows(config, tbl, cols, mins.value,
                                                 decimal_places, override) ])

\* LatexFormatter.generate_latex_table.  selected_columns is the list of the
\* dict's <<column, display name>> items.  The table is returned as its
\* column specifier, its header cells and, row by row, its cells: the
\* string is these joined with " & " and closed by "\\" line ends inside
\* the fixed table/tabular frame.
generate_latex_table(config, tbl, selected_columns, decimal_places, override) ==
    LET display_names == [k \in DOMAIN selected_columns |-> selected_columns[k][2]]
        cols == [k \in DOMAIN selected_columns |-> selected_columns[k][1]]
        mins == _calculate_min_values(config, tbl, cols, override)
    IN  IF cols = <<>> THEN Ok(NoColumnsMessage)
        ELSE IF mins.status # "ok" THEN Raise(mins.status)
        ELSE IF RowsAbort(config, tbl, cols) # "no" THEN Raise(RowsAbort(config, tbl, cols))
        ELSE Ok([ col_spec |-> _build_table_header(config, Len(cols)),
                  headers  |-> _build_table_headers(config, display_names),
                  rows     |-> _build_table_rows(config, tbl, cols, mins.value,
                                                 decimal_places, override) ])

-----------------------------------------------------------------------------
(* The manager the state holds, and text used by the configurations below *)

cm == [config |-> user_config, default_config |-> default_config]

s_m1     == <<"m","1">>
s_dbg    == <<"d","b","g">>
s_2022   == <<"2","0","2","2">>
s_2022f  == <<"2","0","2","2",".","0">>
t_M1     == <<"M","o","d","e","l"," ","1">>
t_Debug  == <<"D","e","b","u","g">>
t_Y1     == <<"Y","e","a","r"," ","1">>
t_Yf     == <<"Y","e","a","r"," ","1","f">>
t_dagger == <<"\\dagger">>
t_ast    == <<"\\ast">>

-----------------------------------------------------------------------------
(* Accessor calls on a loaded ConfigManager (SpecConfig).                  *)

\* legacy (model-only) settings of a user configuration
LegacyParts ==
    { <<>>,
      [ model_order |-> (s_m1 :> 1 @@ s_2022 :> 2),
        latex_model_names |-> (s_m1 :> t_M1 @@ s_2022 :> t_Y1),
        ignored_models |-> <<s_dbg>>,
        ignored_models_in_calculation |-> <<s_dbg, s_2022>>,
        model_patterns |-> [suffixes |-> << <<<<"1">>, t_dagger>> >>] ],
      [ model_order |-> (s_2022f :> 3),
        latex_model_names |-> (s_2022f :> t_Yf) ] }

\* generalized settings of a user configuration
GeneralParts ==
    { <<>>,
      [ row_sorting |-> [columns |-> <<c_model>>,
                         sort_orders |-> (c_model :> (s_dbg :> 1))],
        value_replacements |-> (c_model :> (s_dbg :> t_Debug)),
        row_filtering |-> [exclude_values |-> (c_model :> << <<"m","*">> >>),
                           exclude_from_calculations |-> (c_model :> << <<"?","1">> >>)],
        pattern_formatting |-> (c_model :> [suffixes |-> << <<<<"g">>, t_ast>> >>]) ],
      [ row_sorting |-> [columns |-> <<c_year>>,
                         sort_orders |-> (c_year :> (s_2022 :> 1))],
        value_replacements |-> (c_year :> (s_2022 :> t_Y1)),
        row_filtering |-> [exclude_values |-> (c_year :> <<s_2022>>),
                           exclude_from_calculations |-> (c_year :> << <<"2","0","2","2","*">> >>)],
        pattern_formatting |-> (c_year :> [suffixes |-> << <<<<".","0">>, t_ast>> >>]) ],
      [ value_replacements |-> (c_year :> (s_2022f :> t_Yf)) ],
      [ value_replacements |-> (c_year :> (s_2022 :> t_Y1 @@ s_2022f :> t_Yf)) ] }

\* the user configurations offered: one legacy part with one generalized part
AccessorConfigs == {l @@ g : l \in LegacyParts, g \in GeneralParts}

\* columns and values the accessors are asked about
AccessorColumns == {c_model, c_year, c_score}
AccessorValues ==
    { TextV(s_m1), TextV(s_dbg), TextV(s_2022), IntV(2022), FloatV(20220, 0),
      FloatV(20225, 0), IntV(1) }

InitConfig ==
    /\ user_config \in AccessorConfigs
    /\ null_config = NoNulls
    /\ default_config = HardcodedDefaults
    /\ config_path = "table_config.yaml"
    /\ df = <<>>
    /\ call = [op |-> "init"]
    /\ result = <<>>
    /\ last_min_values = <<>>
    /\ steps = 0

Asked(op, col_name, value) ==
    call' = [op |-> op, col_name |-> col_name, value |-> value]

CallGetSortOrder ==
    \E col_name \in AccessorColumns, value \in AccessorValues :
        /\ Asked("get_sort_order", col_name, value)
        /\ result' = get_sort_order(cm, col_name, value)
        /\ UNCHANGED <<user_config, null_config, default_config, config_path, df, last_min_values, steps>>

CallGetValueReplacement ==
    \E col_name \in AccessorColumns, value \in AccessorValues :
        /\ Asked("get_value_replacement", col_name, value)
        /\ result' = get_value_replacement(cm, col_name, value)
        /\ UNCHANGED <<user_config, null_config, default_config, config_path, df, last_min_values, steps>>

CallGetColumnPatterns ==
    \E col_name \in AccessorColumns :
        /\ Asked("get_column_patterns", col_name, None)
        /\ result' = get_column_patterns(cm, col_name)
        /\ UNCHANGED <<user_config, null_config, default_config, config_path, df, last_min_values, steps>>

CallShouldExcludeValue ==
    \E col_name \in AccessorColumns, value \in AccessorValues :
        /\ Asked("should_exclude_value", col_name, value)
        /\ result' = should_exclude_value(cm, col_name, value)
        /\ UNCHANGED <<user_config, null_config, default_config, config_path, df, last_min_values, steps>>

CallShouldExcludeFromCalculations ==
    \E col_name \in AccessorColumns, value \in AccessorValues :
        /\ Asked("should_exclude_from_calculations", col_name, value)
        /\ result' = should_exclude_from_calculations(cm, col_name, value)
        /\ UNCHANGED <<user_config, null_config, default_config, config_path, df, last_min_values, steps>>

NextConfig ==
    \/ CallGetSortOrder
    \/ CallGetValueReplacement
    \/ CallGetColumnPatterns
    \/ CallShouldExcludeValue
    \/ CallShouldExcludeFromCalculations

SpecConfig == InitConfig /\ [][NextConfig]_vars

-----------------------------------------------------------------------------
(* Pretty column names (SpecNames).                                        *)

\* pieces column names are built from
NameTokens ==
    { <<"d","a","t","a","_">>, <<"m","o","d","e","l","_">>,
      <<"r","e","s","u","l","t","_">>, <<"n","a","m","e">>,
      <<"m","y","_">>, <<"i","d">> }

RECURSIVE Concat(_)
Concat(parts) == IF parts = <<>> THEN <<>> ELSE Head(parts) \o Concat(Tail(parts))

\* column names: 1..MaxWords pieces
ColumnNames ==
    UNION { {Concat(ts) : ts \in [1..k -> NameTokens]} : k \in 1..MaxWords }

n_data_id == <<"d","a","t","a","_","i","d">>
t_Identifier == <<"I","d","e","n","t","i","f","i","e","r">>

NameConfigs == { <<>>, [display_names |-> (n_data_id :> t_Identifier)] }

InitNames ==
    /\ user_config \in NameConfigs
    /\ null_config = NoNulls
    /\ default_config = HardcodedDefaults
    /\ config_path = "table_config.yaml"
    /\ df = <<>>
    /\ \E col_name \in ColumnNames :
           call = [op |-> "pending", col_name |-> col_name,
                   again |-> FALSE, first |-> col_name]
    /\ result = <<>>
    /\ last_min_values = <<>>
    /\ steps = 0

\* get_pretty_column_name(col_name) for the column name drawn
CallGetPrettyColumnName ==
    /\ call.op = "pending"
    /\ call' = [call EXCEPT !.op = "get_pretty_column_name"]
    /\ result' = get_pretty_column_name(cm, call.col_name)
    /\ UNCHANGED <<user_config, null_config, default_config, config_path, df, last_min_values, steps>>

\* get_pretty_column_name applied to the name the previous call returned
CallPrettyAgain ==
    /\ call.op = "get_pretty_column_name"
    /\ ~call.again
    /\ call' = [op |-> "get_pretty_column_name", col_name |-> result,
                again |-> TRUE, first |-> call.col_name]
    /\ result' = get_pretty_column_name(cm, result)
    /\ UNCHANGED <<user_config, null_config, default_config, config_path, df, last_min_values, steps>>

NextNames == CallGetPrettyColumnName \/ CallPrettyAgain

SpecNames == InitNames /\ [][NextNames]_vars

-----------------------------------------------------------------------------
(* The conversion pipeline (Spec): a table is loaded, ad hoc filters, ad   *)
(* hoc sorts and the declarative exclusion are applied to it, each step    *)
(* replacing the table by its result, and the table is rendered.  An       *)
(* exception ends the run.                                                 *)

s_m2 == <<"m","2">>
s_m3 == <<"m","3">>
s_x1 == <<"x","1">>
t_Check == <<"C","h","e","c","k">>
t_checkmark == <<"\\checkmark">>

\* the rows tables are made of: model (text), score (float), year (int)
RowKinds ==
    << [model |-> s_m1,  score |-> FloatV(5, 0), year |-> 2022],
       [model |-> s_m2,  score |-> FloatV(3, 0), year |-> 2023],
       [model |-> s_dbg, score |-> FloatV(1, 0), year |-> 2022],
       [model |-> s_x1,  score |-> FloatV(3, 1), year |-> 2023],
       [model |-> s_m3,  score |-> FloatV(3, 3), year |-> 2022] >>

TableColumns == <<c_model, c_score, c_year>>

\* the k-th least element of a set of numbers
Nth(S, k) == CHOOSE x \in S : Cardinality({y \in S : y < x}) = k - 1

\* pd.read_csv / pd.concat(ignore_index=True): the rows of the chosen kinds,
\* labelled 0..n-1
LoadTable(kinds) ==
    [ columns |-> TableColumns,
      dtype   |-> (c_model :> "object" @@ c_score :> "float64" @@ c_year :> "int64"),
      rows    |-> [i \in 1..Cardinality(kinds) |->
                     LET k == RowKinds[Nth(kinds, i)]
                     IN  [label |-> i - 1,
                          v |-> (c_model :> TextV(k.model) @@ c_score :> k.score
                                 @@ c_year :> IntV(k.year))]] ]

Tables ==
    {LoadTable(kinds) : kinds \in {K \in SUBSET DOMAIN RowKinds :
                                       Cardinality(K) \in 1..MaxRows}}

\* the user configurations of the pipeline
PipelineConfigs ==
    { <<>>,
      [ column_underline |-> (c_score :> True @@ c_year :> True),
        value_replacements |-> (c_year :> (s_2022 :> t_Y1)),
        row_filtering |-> [exclude_values |-> (c_model :> << <<"x","*">> >>),
                           exclude_from_calculations |-> (c_model :> <<s_dbg>>)],
        pattern_formatting |->
            (c_score :> [suffixes |-> << <<<<"3">>, t_dagger>>, <<<<".","3">>, t_ast>> >>]),
        column_formats |-> (c_year :> f_d),
        extra_columns |-> << [position |-> 1, display_name |-> t_Check,
                              value |-> t_checkmark] >> ],
      [ column_underline |-> (c_score :> False),
        ignored_models |-> <<s_x1>>,
        ignored_models_in_calculation |-> <<s_dbg>>,
        latex_model_names |-> (s_dbg :> t_Debug),
        column_formats |-> (c_score :> f_1f) ],
      [ underline_min_values |-> True,
        row_filtering |-> [exclude_from_calculations |-> (c_score :> << <<"0",".","1">> >>)],
        column_formats |-> (c_score :> f_bad) ] }

\* ad hoc filters (FilterDialog.get_active_filters)
RangeFilter(lo, hi) == [type |-> "range", min |-> lo, max |-> hi, value |-> NoneV]
ValueFilter(type, value) == [type |-> type, min |-> NoneV, max |-> NoneV, value |-> value]
FilterChoices ==
    { << <<c_score, RangeFilter(NoneV, FloatV(4, 0))>> >>,
      << <<c_score, ValueFilter("greater_than", FloatV(2, 0))>> >> }

\* ad hoc sort keys (SortDialog.get_sort_keys)
SortChoices ==
    { << <<c_score, TRUE>> >>,
      << <<c_year, FALSE>>, <<c_score, TRUE>> >> }

\* selections: the columns in order (each shown under its pretty name)
ColumnChoices ==
    { <<>>, <<c_model, c_score>>, <<c_model, c_year, c_score>>, <<c_year, c_score>> }

OverrideChoices ==
    { NoOverride, OverrideWith(c_score :> False @@ c_year :> False),
      OverrideWith(c_score :> True) }

Init ==
    /\ user_config \in PipelineConfigs
    /\ null_config = NoNulls
    /\ default_config = HardcodedDefaults
    /\ config_path = "table_config.yaml"
    /\ df \in Tables
    /\ call = [op |-> "load"]
    /\ result = Ok(<<>>)
    /\ last_min_values = <<>>
    /\ steps = 0

\* the run goes on: no exception so far, nothing rendered yet
Running == result.status = "ok" /\ call.op # "generate_latex_table"

\* a step that replaces the table by what the operation returned
Step(op, arg, out) ==
    /\ call' = [op |-> op, arg |-> arg, df |-> df]
    /\ result' = [out EXCEPT !.value = <<>>]
    /\ df' = IF out.status = "ok" THEN out.value ELSE df
    /\ steps' = steps + 1
    /\ UNCHANGED <<user_config, null_config, default_config, config_path, last_min_values>>

ApplyFilters ==
    /\ Running /\ steps < MaxSteps
    /\ \E active_filters \in FilterChoices :
           Step("apply_filters", active_filters, apply_filters(df, active_filters))

ApplySort ==
    /\ Running /\ steps < MaxSteps
    /\ \E sort_keys \in SortChoices :
           \E out \in apply_sort(df, sort_keys) : Step("apply_sort", sort_keys, out)

FilterExcludedValues ==
    /\ Running /\ steps < MaxSteps
    /\ Step("filter_excluded_values", <<>>, filter_excluded_values(df, cm))

GenerateLatexTable ==
    /\ Running
    /\ \E cols \in ColumnChoices, decimal_places \in 1..MaxDecimals,
          override \in OverrideChoices :
           LET selected_columns ==
                   [k \in DOMAIN cols |-> <<cols[k], get_pretty_column_name(cm, cols[k])>>]
               mins == _calculate_min_values(cm, df, cols, override)
           IN  /\ call' = [op |-> "generate_latex_table", cols |-> cols,
                           decimal_places |-> decimal_places, override |-> override]
               /\ result' = generate_latex_table(cm, df, selected_columns,
                                                 decimal_places, override)
               /\ last_min_values' = IF cols # <<>> /\ mins.status = "ok"
                                     THEN mins.value ELSE <<>>
    /\ UNCHANGED <<user_config, null_config, default_config, config_path, df, steps>>

Next ==
    \/ ApplyFilters
    \/ ApplySort
    \/ FilterExcludedValues
    \/ GenerateLatexTable

Spec == Init /\ [][Next]_vars

-----------------------------------------------------------------------------
(* One DataProcessor call on a table (SpecTable): an ad hoc filter, an ad  *)
(* hoc sort or the declarative sort, on a table as loaded or as an earlier *)
(* sort returned it, its rows and their labels in reverse.                 *)

c_rank == <<"r","a","n","k">>
s_2023 == <<"2","0","2","3">>

\* the table with its rows in reverse order, each keeping its label
Reversed(tbl) ==
    [tbl EXCEPT !.rows = [i \in DOMAIN tbl.rows |-> tbl.rows[Len(tbl.rows) + 1 - i]]]

TablesAnyOrder == Tables \cup {Reversed(tbl) : tbl \in Tables}

\* row_sorting configurations: none, one column, two columns, a column the
\* table lacks before one it has (ranked by the legacy model_order), only a
\* column the table lacks, and no columns entry
SortConfigs ==
    { <<>>,
      [ row_sorting |-> [columns |-> <<c_model>>,
                         sort_orders |-> (c_model :> (s_m2 :> 1 @@ s_m1 :> 2))] ],
      [ row_sorting |-> [columns |-> <<c_year, c_model>>,
                         sort_orders |-> (c_year :> (s_2023 :> 1)
                                          @@ c_model :> (s_m1 :> 1 @@ s_dbg :> 2))] ],
      [ row_sorting |-> [columns |-> <<c_rank, c_model>>],
        model_order |-> (s_dbg :> 1 @@ s_m3 :> 2) ],
      [ row_sorting |-> [columns |-> <<c_rank>>,
                         sort_orders |-> (c_rank :> (s_m1 :> 1))] ],
      [ row_sorting |-> [sort_orders |-> (c_model :> (s_m1 :> 1))] ] }

\* ad hoc filters: each kind of bound, a conjunction, none, filters on a
\* column the table lacks, and an ordering filter on the text column
AdHocFilters ==
    FilterChoices \cup
    { <<>>,
      << <<c_score, RangeFilter(FloatV(3, 1), NoneV)>> >>,
      << <<c_score, RangeFilter(FloatV(3, 0), FloatV(3, 1))>> >>,
      << <<c_score, ValueFilter("greater_than", FloatV(3, 1))>> >>,
      << <<c_score, ValueFilter("less_than", FloatV(3, 1))>> >>,
      << <<c_year, ValueFilter("equal_to", FloatV(20220, 0))>> >>,
      << <<c_model, ValueFilter("equal_to", TextV(s_m1))>> >>,
      << <<c_year, ValueFilter("equal_to", TextV(s_2023))>> >>,
      << <<c_score, RangeFilter(FloatV(3, 0), NoneV)>>,
         <<c_year, ValueFilter("equal_to", FloatV(20220, 0))>> >>,
      << <<c_rank, ValueFilter("greater_than", FloatV(3, 0))>> >>,
      << <<c_score, RangeFilter(FloatV(3, 0), NoneV)>>,
         <<c_rank, ValueFilter("equal_to", FloatV(3, 0))>> >>,
      << <<c_rank, RangeFilter(NoneV, NoneV)>> >>,
      << <<c_model, ValueFilter("less_than", FloatV(3, 0))>> >> }

\* ad hoc sort keys: one key, several, none, and keys on a column the table
\* lacks
AdHocSorts ==
    SortChoices \cup
    { <<>>,
      << <<c_year, TRUE>> >>,
      << <<c_model, FALSE>> >>,
      << <<c_year, TRUE>>, <<c_model, FALSE>> >>,
      << <<c_rank, TRUE>> >>,
      << <<c_score, TRUE>>, <<c_rank, FALSE>> >> }

InitTable ==
    /\ user_config \in SortConfigs
    /\ null_config = NoNulls
    /\ default_config = HardcodedDefaults
    /\ config_path = "table_config.yaml"
    /\ df \in TablesAnyOrder
    /\ call = [op |-> "load"]
    /\ result = Ok(<<>>)
    /\ last_min_values = <<>>
    /\ steps = 0

FilterAdHoc ==
    /\ call.op = "load"
    /\ \E active_filters \in AdHocFilters :
           Step("apply_filters", active_filters, apply_filters(df, active_filters))

SortAdHoc ==
    /\ call.op = "load"
    /\ \E sort_keys \in AdHocSorts :
           \E out \in apply_sort(df, sort_keys) : Step("apply_sort", sort_keys, out)

SortByCustomOrder ==
    /\ call.op = "load"
    /\ \E out \in sort_by_custom_order(df, cm) : Step("sort_by_custom_order", <<>>, out)

NextTable ==
    \/ FilterAdHoc
    \/ SortAdHoc
    \/ SortByCustomOrder

SpecTable == InitTable /\ [][NextTable]_vars

-----------------------------------------------------------------------------
(* One call on a table that may have columns named like the rank columns   *)
(* the sorts work with (SpecFrame).                                        *)

\* the table with two more integer columns, _sort_model and _model_order,
\* each row holding its label in both
WithRankColumns(tbl) ==
    [ columns |-> tbl.columns \o <<SortKeyColumn(c_model), c_model_order>>,
      dtype   |-> tbl.dtype @@ (SortKeyColumn(c_model) :> "int64")
                            @@ (c_model_order :> "int64"),
      rows    |-> [i \in DOMAIN tbl.rows |->
                     [label |-> tbl.rows[i].label,
                      v |-> tbl.rows[i].v
                            @@ (SortKeyColumn(c_model) :> IntV(tbl.rows[i].label))
                            @@ (c_model_order :> IntV(tbl.rows[i].label))]] ]

FrameTables == Tables \cup {WithRankColumns(tbl) : tbl \in Tables}

InitFrame ==
    /\ user_config \in SortConfigs
    /\ null_config = NoNulls
    /\ default_config = HardcodedDefaults
    /\ config_path = "table_config.yaml"
    /\ df \in FrameTables
    /\ call = [op |-> "load"]
    /\ result = Ok(<<>>)
    /\ last_min_values = <<>>
    /\ steps = 0

SortByModelOrder ==
    /\ call.op = "load"
    /\ \E out \in sort_by_model_order(df, cm) : Step("sort_by_model_order", <<>>, out)

ExcludeLoaded == call.op = "load" /\ FilterExcludedValues

RenderLoaded == call.op = "load" /\ GenerateLatexTable

NextFrame ==
    \/ FilterAdHoc
    \/ SortAdHoc
    \/ SortByCustomOrder
    \/ SortByModelOrder
    \/ ExcludeLoaded
    \/ RenderLoaded

SpecFrame == InitFrame /\ [][NextFrame]_vars

-----------------------------------------------------------------------------
(* Rendering a loaded table under configurations of extra columns and of   *)
(* column formats (SpecRender).                                            *)

t_Note == <<"N","o","t","e">>
t_star == <<"\\star">>

ExtraColumn(position, display_name, value) ==
    [position |-> position, display_name |-> display_name, value |-> value]

\* extra columns before, between, at the end of and beyond the selected
\* columns, two at one position, two listed in descending and in ascending
\* order of position, and formats that cannot be applied
RenderConfigs ==
    { [ extra_columns |-> << ExtraColumn(0, t_Check, t_checkmark) >> ],
      [ extra_columns |-> << ExtraColumn(2, t_Check, t_checkmark) >> ],
      [ extra_columns |-> << ExtraColumn(5, t_Check, t_checkmark) >> ],
      [ extra_columns |-> << ExtraColumn(1, t_Check, t_checkmark),
                             ExtraColumn(1, t_Note, t_star) >> ],
      [ extra_columns |-> << ExtraColumn(3, t_Note, t_star),
                             ExtraColumn(1, t_Check, t_checkmark) >> ],
      [ extra_columns |-> << ExtraColumn(2, t_Note, t_star),
                             ExtraColumn(1, t_Check, t_checkmark) >> ],
      [ extra_columns |-> << ExtraColumn(1, t_Check, t_checkmark),
                             ExtraColumn(2, t_Note, t_star) >> ],
      [ column_formats |-> (c_score :> f_bad @@ c_year :> f_bad),
        column_underline |-> (c_score :> True) ],
      [ column_formats |-> (c_score :> f_int4) ],
      [ column_formats |-> (c_year :> f_int4 @@ c_score :> f_3f),
        value_replacements |-> (c_year :> (s_2022 :> t_Y1)) ] }

InitRender ==
    /\ user_config \in RenderConfigs
    /\ null_config = NoNulls
    /\ default_config = HardcodedDefaults
    /\ config_path = "table_config.yaml"
    /\ df \in Tables
    /\ call = [op |-> "load"]
    /\ result = Ok(<<>>)
    /\ last_min_values = <<>>
    /\ steps = 0

NextRender == GenerateLatexTable

SpecRender == InitRender /\ [][NextRender]_vars

-----------------------------------------------------------------------------
(* Rendering a loaded table with numbers in the leading column and text in *)
(* a later one, under configurations of suffix patterns, formats and       *)
(* underlining (SpecCells).                                                *)

\* suffix patterns of which two match one value, a pattern entry without a
\* suffixes key, the empty suffix, the legacy model patterns, and a format
\* and underlining for the year, which some selections lead with
CellConfigs ==
    { <<>>,
      [ pattern_formatting |->
            (c_score :> [suffixes |-> << <<<<"3">>, t_dagger>>, <<<<".","3">>, t_ast>> >>]
             @@ c_year :> [suffixes |-> << <<<<".","0">>, t_ast>>, <<<<"3">>, t_dagger>> >>]),
        column_underline |-> (c_score :> True @@ c_year :> True),
        column_formats |-> (c_year :> f_d) ],
      [ pattern_formatting |->
            (c_score :> [prefixes |-> << <<<<"3">>, t_dagger>> >>]
             @@ c_year :> [suffixes |-> << <<<<"3">>, t_dagger>> >>]),
        underline_min_values |-> True,
        column_formats |-> (c_score :> f_1f @@ c_year :> f_bad) ],
      [ model_patterns |-> [suffixes |-> << <<<<"1">>, t_dagger>> >>],
        pattern_formatting |-> (c_score :> [suffixes |-> << <<<<>>, t_ast>> >>]),
        column_underline |-> (c_year :> True),
        column_formats |-> (c_year :> f_x) ],
      [ pattern_formatting |->
            (c_year :> [suffixes |-> << <<<<"2">>, t_dagger>> >>]
             @@ c_model :> [suffixes |-> << <<<<"1">>, t_ast>> >>]),
        value_replacements |-> (c_year :> (s_2022 :> t_Y1)),
        column_underline |-> (c_year :> True @@ c_score :> True),
        column_formats |-> (c_year :> f_d) ] }

\* selections that lead with a number, and with text in a later column
CellSelections ==
    { <<c_model, c_score, c_year>>, <<c_score, c_year>>, <<c_year, c_score>>,
      <<c_score, c_model, c_year>>, <<c_year, c_model>> }

CellOverrides == OverrideChoices \cup {OverrideWith(c_year :> True @@ c_score :> True)}

InitCells ==
    /\ user_config \in CellConfigs
    /\ null_config = NoNulls
    /\ default_config = HardcodedDefaults
    /\ config_path = "table_config.yaml"
    /\ df \in Tables
    /\ call = [op |-> "load"]
    /\ result = Ok(<<>>)
    /\ last_min_values = <<>>
    /\ steps = 0

\* generate_latex_table on the table held, for one of the selections above
RenderCells ==
    /\ Running
    /\ \E cols \in CellSelections, decimal_places \in 1..MaxDecimals,
          override \in CellOverrides :
           LET selected_columns ==
                   [k \in DOMAIN cols |-> <<cols[k], get_pretty_column_name(cm, cols[k])>>]
               mins == _calculate_min_values(cm, df, cols, override)
           IN  /\ call' = [op |-> "generate_latex_table", cols |-> cols,
                           decimal_places |-> decimal_places, override |-> override]
               /\ result' = generate_latex_table(cm, df, selected_columns,
                                                 decimal_places, override)
               /\ last_min_values' = IF mins.status = "ok" THEN mins.value ELSE <<>>
    /\ UNCHANGED <<user_config, null_config, default_config, config_path, df, steps>>

NextCells == RenderCells

SpecCells == InitCells /\ [][NextCells]_vars

-----------------------------------------------------------------------------
(* The loops of _build_table_rows, pass by pass (SpecRows, and FairRows    *)
(* where a loop that can go on does).  call holds where the loops stand:   *)
(* pc, the row r, the column i, current_pos, the passes of the while loop  *)
(* made for the cell at hand and the most made for any cell; result holds  *)
(* row_values.                                                             *)

\* extra columns: none, two at one position, three in a run from 0, a
\* negative and a very large position, and two in descending order
LoopConfigs ==
    { <<>>,
      [ extra_columns |-> << ExtraColumn(1, t_Check, t_checkmark),
                             ExtraColumn(1, t_Note, t_star) >> ],
      [ extra_columns |-> << ExtraColumn(0, t_Check, t_checkmark),
                             ExtraColumn(1, t_Note, t_star),
                             ExtraColumn(2, t_Check, t_dagger) >> ],
      [ extra_columns |-> << ExtraColumn(-1, t_Check, t_checkmark),
                             ExtraColumn(999999, t_Note, t_star) >> ],
      [ extra_columns |-> << ExtraColumn(2, t_Note, t_star),
                             ExtraColumn(1, t_Check, t_checkmark) >> ] }

InitRows ==
    /\ user_config \in LoopConfigs
    /\ null_config = NoNulls
    /\ default_config = HardcodedDefaults
    /\ config_path = "table_config.yaml"
    /\ df \in Tables
    /\ \E cols \in ColumnChoices \ {<<>>}, decimal_places \in 1..MaxDecimals :
           call = [op |-> "_build_table_rows", pc |-> "row", r |-> 1, i |-> 1,
                   current_pos |-> 0, iterations |-> 0, most |-> 0,
                   cols |-> cols, decimal_places |-> decimal_places]
    /\ result = Ok(<<>>)
    /\ last_min_values = _calculate_min_values(cm, df, call.cols, NoOverride).value
    /\ steps = 0

\* for _, row in df[cols].iterrows(): the next row begins
StartRow ==
    /\ call.pc = "row" /\ call.r <= Len(df.rows)
    /\ call' = [call EXCEPT !.pc = "while", !.i = 1, !.current_pos = 0, !.iterations = 0]
    /\ result' = Ok(<<>>)
    /\ UNCHANGED <<user_config, null_config, default_config, config_path, df, last_min_values, steps>>

\* one pass of the while loop without current_pos += 1
WhileStep_PositionKept ==
    /\ call.pc = "while" /\ call.iterations < MaxLoop
    /\ \E k \in DOMAIN extra_columns(cm) : extra_columns(cm)[k].position = call.current_pos
    /\ LET extras == extra_columns(cm)
           k == CHOOSE j \in DOMAIN extras :
                    /\ extras[j].position = call.current_pos
                    /\ \A m \in 1..(j - 1) : extras[m].position # call.current_pos
       IN  result' = Ok(Append(result.value, ExtraCell(extras[k].value)))
    /\ call' = [call EXCEPT !.iterations = @ + 1,
                            !.most = IF call.iterations + 1 > @ THEN call.iterations + 1 ELSE @]
    /\ UNCHANGED <<user_config, null_config, default_config, config_path, df, last_min_values, steps>>

\* one pass of the while loop: the value of the first extra column at
\* current_pos is appended and current_pos goes up
WhileStep ==
    /\ call.pc = "while" /\ call.iterations < MaxLoop
    /\ \E k \in DOMAIN extra_columns(cm) : extra_columns(cm)[k].position = call.current_pos
    /\ LET extras == extra_columns(cm)
           k == CHOOSE j \in DOMAIN extras :
                    /\ extras[j].position = call.current_pos
                    /\ \A m \in 1..(j - 1) : extras[m].position # call.current_pos
       IN  result' = Ok(Append(result.value, ExtraCell(extras[k].value)))
    /\ call' = [call EXCEPT !.current_pos = @ + 1, !.iterations = @ + 1,
                            !.most = IF call.iterations + 1 > @ THEN call.iterations + 1 ELSE @]
    /\ UNCHANGED <<user_config, null_config, default_config, config_path, df, last_min_values, steps>>

\* the while loop is left: the cell of column i is appended, and the for
\* loop over the row goes to its next column or ends
CellStep ==
    /\ call.pc = "while"
    /\ \A k \in DOMAIN extra_columns(cm) : extra_columns(cm)[k].position # call.current_pos
    /\ LET value == RowValues(df, call.cols, df.rows[call.r])[call.i]
           col   == call.cols[call.i]
       IN  result' = Ok(Append(result.value,
                         DataCell(col, value,
                             _format_cell_value(cm, value, col, last_min_values,
                                                call.decimal_places, call.i = 1, NoOverride))))
    /\ call' = [call EXCEPT !.current_pos = @ + 1, !.i = @ + 1, !.iterations = 0,
                            !.pc = IF call.i = Len(call.cols) THEN "rest" ELSE "while"]
    /\ UNCHANGED <<user_config, null_config, default_config, config_path, df, last_min_values, steps>>

\* the remaining extra columns are appended and the row is complete
RestStep ==
    /\ call.pc = "rest"
    /\ LET extras == extra_columns(cm)
           rest == SelectSeq(extras, LAMBDA ec : ec.position >= call.current_pos)
       IN  result' = Ok(result.value \o [j \in DOMAIN rest |-> ExtraCell(rest[j].value)])
    /\ call' = [call EXCEPT !.pc = "row", !.r = @ + 1]
    /\ UNCHANGED <<user_config, null_config, default_config, config_path, df, last_min_values, steps>>

\* the loop over the rows ends and _build_table_rows returns
EndRows ==
    /\ call.pc = "row" /\ call.r > Len(df.rows)
    /\ call' = [call EXCEPT !.pc = "done"]
    /\ UNCHANGED <<user_config, null_config, default_config, config_path, df, result, last_min_values, steps>>

NextRows ==
    \/ StartRow
    \/ WhileStep
    \/ CellStep
    \/ RestStep
    \/ EndRows

SpecRows == InitRows /\ [][NextRows]_vars

\* the code runs on: a loop that can make its next pass makes it
FairRows == SpecRows /\ WF_vars(NextRows)

-----------------------------------------------------------------------------
(* Loading configuration files and asking the accessors (SpecLoad).        *)

\* the configuration files: none at the path, a document that does not
\* parse, an empty document, and documents, some of whose top-level keys
\* have no value
FileAbsent    == [kind |-> "absent", data |-> <<>>, nulls |-> {}]
FileMalformed == [kind |-> "malformed", data |-> <<>>, nulls |-> {}]
FileEmpty     == [kind |-> "empty", data |-> <<>>, nulls |-> {}]
Document(data, nulls) == [kind |-> "document", data |-> data, nulls |-> nulls]

ConfigFiles ==
    [ table_config |->
          Document([ column_formats |-> (c_score :> f_3f),
                     column_underline |-> (c_score :> True),
                     display_names |-> (c_score :> t_Check),
                     model_order |-> (s_m1 :> 1),
                     latex_model_names |-> (s_m1 :> t_M1),
                     ignored_models |-> <<s_m1>>,
                     ignored_models_in_calculation |-> <<s_m1>>,
                     model_patterns |-> [suffixes |-> << <<<<"1">>, t_dagger>> >>] ], {}),
      missing |-> FileAbsent,
      broken |-> FileMalformed,
      empty |-> FileEmpty,
      general |->
          Document([ row_sorting |-> [columns |-> <<c_score>>,
                                      sort_orders |-> (c_score :> (s_2022 :> 1))],
                     value_replacements |-> (c_score :> (s_2022 :> t_Y1)),
                     row_filtering |-> [exclude_values |-> (c_score :> <<s_2022>>)],
                     pattern_formatting |-> (c_score :> [suffixes |-> <<>>]) ], {}),
      null_formats |->
          Document([ column_underline |-> (c_score :> True) ],
                   {"column_formats", "underline_min_values", "row_sorting",
                    "row_filtering"}),
      null_names |->
          Document(<<>>, {"display_names", "column_underline", "value_replacements",
                          "pattern_formatting"}),
      null_legacy |->
          Document(<<>>, {"model_order", "latex_model_names", "ignored_models",
                          "ignored_models_in_calculation", "model_patterns"}) ]

ConfigPaths == DOMAIN ConfigFiles

\* _load_config with a configuration file that does not parse read as {}
_load_config_SwallowsParseError(path) ==
    LET file == ConfigFiles[path]
    IN  IF file.kind \in {"absent", "malformed"} THEN Ok([config |-> <<>>, nulls |-> NoNulls])
        ELSE IF file.kind = "empty" THEN Ok([config |-> <<>>, nulls |-> Nulls(TRUE, {})])
        ELSE Ok([config |-> [k \in file.nulls |-> <<>>] @@ file.data,
                 nulls |-> Nulls(FALSE, file.nulls)])

\* ConfigManager._load_config: {} for no file, what yaml.safe_load returns
\* otherwise, and its exception for a document that does not parse
_load_config(path) ==
    LET file == ConfigFiles[path]
    IN  IF file.kind = "absent" THEN Ok([config |-> <<>>, nulls |-> NoNulls])
        ELSE IF file.kind = "malformed" THEN Raise("YAMLError")
        ELSE IF file.kind = "empty" THEN Ok([config |-> <<>>, nulls |-> Nulls(TRUE, {})])
        ELSE Ok([config |-> [k \in file.nulls |-> <<>>] @@ file.data,
                 nulls |-> Nulls(FALSE, file.nulls)])

Accessors ==
    { "get_column_format", "get_column_underline", "get_pretty_column_name",
      "get_sort_order", "get_value_replacement", "get_column_patterns",
      "should_exclude_value", "should_exclude_from_calculations" }

\* the exception an accessor raises on a None, "no" for none:
\* self._config.get on a None document, then .get or `in` on a None value
\* of the key the accessor reads
AccessorRaises(nulls, self, op, col_name) ==
    LET generalized(key, entry) ==
            /\ NonEmpty(_get_config_value(self, key))
            /\ entry \in DOMAIN _get_config_value(self, key)
            /\ col_name \in DOMAIN _get_config_value(self, key)[entry]
        legacy(key, error) ==
            IF col_name = c_model /\ key \in nulls.keys THEN error ELSE "no"
    IN  IF nulls.document THEN "AttributeError"
        ELSE CASE op = "get_column_format" ->
                    IF "column_formats" \in nulls.keys THEN "AttributeError" ELSE "no"
               [] op = "get_column_underline" ->
                    IF "column_underline" \in nulls.keys THEN "TypeError" ELSE "no"
               [] op = "get_pretty_column_name" ->
                    IF "display_names" \in nulls.keys THEN "TypeError" ELSE "no"
               [] op = "get_sort_order" ->
                    IF generalized("row_sorting", "sort_orders") THEN "no"
                    ELSE legacy("model_order", "AttributeError")
               [] op = "get_value_replacement" ->
                    IF "value_replacements" \in nulls.keys THEN "TypeError"
                    ELSE IF col_name \in DOMAIN value_replacements(self) THEN "no"
                    ELSE legacy("latex_model_names", "AttributeError")
               [] op = "get_column_patterns" ->
                    IF "pattern_formatting" \in nulls.keys THEN "TypeError" ELSE "no"
               [] op = "should_exclude_value" ->
                    IF generalized("row_filtering", "exclude_values") THEN "no"
                    ELSE legacy("ignored_models", "TypeError")
               [] op = "should_exclude_from_calculations" ->
                    IF generalized("row_filtering", "exclude_from_calculations") THEN "no"
                    ELSE legacy("ignored_models_in_calculation", "TypeError")

\* what the accessor call ends in: the exception, or the value returned.
\* A None that raises nothing is passed on where the code passes it on:
\* get_column_underline skips a None underline_min_values, and
\* get_column_patterns returns a None model_patterns.
AccessorOutcome(nulls, self, op, col_name, value) ==
    IF AccessorRaises(nulls, self, op, col_name) # "no"
    THEN Raise(AccessorRaises(nulls, self, op, col_name))
    ELSE CASE op = "get_column_format" -> Ok(get_column_format(self, col_name))
           [] op = "get_column_underline" ->
                IF /\ "underline_min_values" \in nulls.keys
                   /\ col_name \notin DOMAIN column_underline(self)
                THEN Ok(Get(column_underline(self), c_default, False))
                ELSE Ok(get_column_underline(self, col_name))
           [] op = "get_pretty_column_name" -> Ok(get_pretty_column_name(self, col_name))
           [] op = "get_sort_order" -> Ok(get_sort_order(self, col_name, value))
           [] op = "get_value_replacement" -> Ok(get_value_replacement(self, col_name, value))
           [] op = "get_column_patterns" ->
                IF /\ "model_patterns" \in nulls.keys /\ col_name = c_model
                   /\ col_name \notin DOMAIN pattern_formatting(self)
                THEN Ok(None)
                ELSE Ok(get_column_patterns(self, col_name))
           [] op = "should_exclude_value" -> Ok(should_exclude_value(self, col_name, value))
           [] op = "should_exclude_from_calculations" ->
                Ok(should_exclude_from_calculations(self, col_name, value))

\* columns and values asked about
LoadColumns == {c_model, c_score}
LoadValues  == {TextV(s_m1), IntV(2022)}

\* ConfigManager(config_path): the manager exists if the file parsed
InitLoad ==
    /\ config_path \in {path \in ConfigPaths : _load_config(path).status = "ok"}
    /\ user_config = _load_config(config_path).value.config
    /\ null_config = _load_config(config_path).value.nulls
    /\ default_config = HardcodedDefaults
    /\ df = <<>>
    /\ call = [op |-> "init"]
    /\ result = Ok(<<>>)
    /\ last_min_values = <<>>
    /\ steps = 0

\* load_config_file with the document read laid over the user configuration
\* held so far: a key the new document lacks keeps its earlier value
LoadConfigFile_KeepsEarlierSettings ==
    \E new_config_path \in ConfigPaths :
        LET loaded == _load_config(new_config_path)
        IN  /\ config_path' = new_config_path
            /\ user_config' = IF loaded.status = "ok"
                               THEN loaded.value.config @@ user_config
                               ELSE user_config
            /\ null_config' = IF loaded.status = "ok" THEN loaded.value.nulls
                               ELSE null_config
            /\ call' = [op |-> "load_config_file", path |-> new_config_path,
                         replaced |-> DOMAIN user_config # {},
                         previous |-> config_path]
            /\ result' = [loaded EXCEPT !.value = <<>>]
            /\ UNCHANGED <<default_config, df, last_min_values, steps>>

\* ConfigManager.load_config_file: the path is set first, so it stays set
\* when _load_config raises and the configuration stays as it was
LoadConfigFile ==
    \E new_config_path \in ConfigPaths :
        LET loaded == _load_config(new_config_path)
        IN  /\ config_path' = new_config_path
            /\ user_config' = IF loaded.status = "ok" THEN loaded.value.config
                               ELSE user_config
            /\ null_config' = IF loaded.status = "ok" THEN loaded.value.nulls
                               ELSE null_config
            /\ call' = [op |-> "load_config_file", path |-> new_config_path,
                         replaced |-> DOMAIN user_config # {},
                         previous |-> config_path]
            /\ result' = [loaded EXCEPT !.value = <<>>]
            /\ UNCHANGED <<default_config, df, last_min_values, steps>>

\* one accessor call on the manager as it is
Ask(op) ==
    \E col_name \in LoadColumns, value \in LoadValues :
        /\ call' = [op |-> op, col_name |-> col_name, value |-> value]
        /\ result' = AccessorOutcome(null_config, cm, op, col_name, value)
        /\ UNCHANGED <<user_config, null_config, default_config, config_path, df, last_min_values, steps>>

AskColumnFormat               == Ask("get_column_format")
AskColumnUnderline            == Ask("get_column_underline")
AskPrettyColumnName           == Ask("get_pretty_column_name")
AskSortOrder                  == Ask("get_sort_order")
AskValueReplacement           == Ask("get_value_replacement")
AskColumnPatterns             == Ask("get_column_patterns")
AskShouldExcludeValue         == Ask("should_exclude_value")
AskShouldExcludeFromCalculations == Ask("should_exclude_from_calculations")

NextLoad ==
    \/ LoadConfigFile
    \/ AskColumnFormat
    \/ AskColumnUnderline
    \/ AskPrettyColumnName
    \/ AskSortOrder
    \/ AskValueReplacement
    \/ AskColumnPatterns
    \/ AskShouldExcludeValue
    \/ AskShouldExcludeFromCalculations

SpecLoad == InitLoad /\ [][NextLoad]_vars

-----------------------------------------------------------------------------
(* Accessor calls on a manager whose default layer was read from           *)
(* default_config.yaml or, with no such file, is the hard-coded one        *)
(* (SpecLayers).                                                           *)

\* default_config.yaml: absent, a document with per-column underline
\* settings only, and a document with the legacy underline setting and
\* generalized settings for the year column
DefaultFiles ==
    { FileAbsent,
      Document([ column_underline |-> (c_default :> True @@ c_year :> False) ], {}),
      Document([ underline_min_values |-> True,
                 column_underline |-> (c_default :> False),
                 row_sorting |-> [columns |-> <<c_year>>,
                                  sort_orders |-> (c_year :> (s_2022 :> 1))],
                 value_replacements |-> (c_year :> (s_2022 :> t_Y1)),
                 row_filtering |-> [exclude_values |-> (c_year :> <<s_2022>>),
                                    exclude_from_calculations |-> (c_year :> <<s_2022>>)],
                 pattern_formatting |-> (c_year :> [suffixes |-> << <<<<"2">>, t_ast>> >>]),
                 model_order |-> (s_m1 :> 1) ], {}) }

\* ConfigManager._load_default_config: the document, or the hard-coded
\* defaults when there is no file
_load_default_config(file) ==
    IF file.kind = "absent" THEN HardcodedDefaults ELSE file.data

\* user configurations that set some top-level keys, some of them with less
\* under the key than the default document has
LayerConfigs ==
    { <<>>,
      [ column_underline |-> (c_score :> True) ],
      [ column_underline |-> (c_score :> True @@ c_default :> True),
        underline_min_values |-> False ],
      [ underline_min_values |-> True ],
      [ row_filtering |-> [exclude_values |-> (c_year :> << <<"2","0","2","3">> >>)] ],
      [ row_sorting |-> [columns |-> <<c_model>>],
        value_replacements |-> (c_model :> (s_m1 :> t_M1)) ],
      [ pattern_formatting |-> (c_score :> [suffixes |-> <<>>]),
        model_order |-> (s_dbg :> 2) ] }

InitLayers ==
    /\ user_config \in LayerConfigs
    /\ null_config = NoNulls
    /\ default_config \in {_load_default_config(file) : file \in DefaultFiles}
    /\ config_path = "table_config.yaml"
    /\ df = <<>>
    /\ call = [op |-> "init"]
    /\ result = <<>>
    /\ last_min_values = <<>>
    /\ steps = 0

CallGetColumnUnderline ==
    \E col_name \in AccessorColumns :
        /\ Asked("get_column_underline", col_name, None)
        /\ result' = get_column_underline(cm, col_name)
        /\ UNCHANGED <<user_config, null_config, default_config, config_path, df, last_min_values, steps>>

NextLayers ==
    \/ CallGetColumnUnderline
    \/ CallGetSortOrder
    \/ CallGetValueReplacement
    \/ CallGetColumnPatterns
    \/ CallShouldExcludeValue
    \/ CallShouldExcludeFromCalculations

SpecLayers == InitLayers /\ [][NextLayers]_vars

-----------------------------------------------------------------------------
(* Claims about the accessors and the pretty names *)

LegacyKeys ==
    { "model_order", "latex_model_names", "ignored_models",
      "ignored_models_in_calculation", "model_patterns" }

AccessorOps ==
    { "get_sort_order", "get_value_replacement", "get_column_patterns",
      "should_exclude_value", "should_exclude_from_calculations" }

\* the answer of the accessor a call names, from manager self
Answer(self, c) ==
    CASE c.op = "get_sort_order" -> get_sort_order(self, c.col_name, c.value)
      [] c.op = "get_value_replacement" -> get_value_replacement(self, c.col_name, c.value)
      [] c.op = "get_column_patterns" -> get_column_patterns(self, c.col_name)
      [] c.op = "should_exclude_value" -> should_exclude_value(self, c.col_name, c.value)
      [] c.op = "should_exclude_from_calculations" ->
             should_exclude_from_calculations(self, c.col_name, c.value)

\* a user configuration that sets legacy keys only
LegacyOnly(cfg) == cfg # <<>> /\ DOMAIN cfg \subseteq LegacyKeys

\* the entries of a legacy configuration written under the generalized keys
AsGeneralized(cfg) ==
    [ row_sorting |-> [columns |-> <<>>,
                       sort_orders |-> (c_model :> Get(cfg, "model_order", <<>>))],
      value_replacements |-> (c_model :> Get(cfg, "latex_model_names", <<>>)) ]

\* C5: a column named model configured only through model_order and
\* latex_model_names gets, for every value, the same get_sort_order and
\* get_value_replacement answers as the same entries written under
\* row_sorting.sort_orders['model'] and value_replacements['model'].
C5_LegacyRoundTrip ==
    ( /\ call.op \in {"get_sort_order", "get_value_replacement"}
      /\ call.col_name = c_model
      /\ LegacyOnly(user_config) )
    => result = Answer([config |-> AsGeneralized(user_config),
                        default_config |-> default_config], call)

\* a layer without its legacy keys
WithoutLegacy(d) == [k \in DOMAIN d \ LegacyKeys |-> d[k]]
NoLegacy(self) ==
    [config |-> WithoutLegacy(self.config),
     default_config |-> WithoutLegacy(self.default_config)]

\* the generalized setting an accessor reads has an entry for the column
GeneralEntry(self, op, col_name) ==
    CASE op = "get_sort_order" ->
             col_name \in DOMAIN Get(row_sorting(self), "sort_orders", <<>>)
      [] op = "get_value_replacement" -> col_name \in DOMAIN value_replacements(self)
      [] op = "get_column_patterns" -> col_name \in DOMAIN pattern_formatting(self)
      [] op = "should_exclude_value" ->
             col_name \in DOMAIN Get(row_filtering(self), "exclude_values", <<>>)
      [] op = "should_exclude_from_calculations" ->
             col_name \in DOMAIN Get(row_filtering(self), "exclude_from_calculations", <<>>)

\* what the legacy setting alone says about a value of the model column
LegacyAnswer(self, c) ==
    CASE c.op = "get_sort_order" -> Get(model_order(self), PyStr(c.value), DefaultRank)
      [] c.op = "get_value_replacement" ->
             Get(latex_model_names(self), PyStr(c.value), PyStr(c.value))
      [] c.op = "get_column_patterns" -> model_patterns(self)
      [] c.op = "should_exclude_value" -> PyStr(c.value) \in ignored_models(self)
      [] c.op = "should_exclude_from_calculations" ->
             PyStr(c.value) \in ignored_in_calculation(self)

\* C6: for the five generalized accessors the legacy model settings count
\* only for the column named model and only when the generalized setting has
\* no entry for model: otherwise the answer is the one a configuration
\* without any legacy key gives (an unlisted value gets the structural
\* default), and in the fallback case the answer is the legacy setting's.
C6_LegacyOnlyAsFallback ==
    call.op \in AccessorOps =>
        IF call.col_name = c_model /\ ~GeneralEntry(cm, call.op, c_model)
        THEN result = LegacyAnswer(cm, call)
        ELSE result = Answer(NoLegacy(cm), call)

\* C6 witness: model has a generalized sort order that does not list the
\* value, the legacy model_order does list it, and the rank is the default
C6_Witness ==
    /\ call.op = "get_sort_order"
    /\ call.col_name = c_model
    /\ GeneralEntry(cm, "get_sort_order", c_model)
    /\ PyStr(call.value) \in DOMAIN model_order(cm)
    /\ result = DefaultRank

\* C10: on a column with a value_replacements entry a numeric value matches
\* under its own str() form first, then an integer-valued float under its
\* integer form and an int under its float form; with no candidate key
\* configured the result is str(value).
C10_BothNumericForms ==
    ( /\ call.op = "get_value_replacement"
      /\ call.col_name \in DOMAIN value_replacements(cm) )
    => LET r     == value_replacements(cm)[call.col_name]
           v     == call.value
           own   == PyStr(v)
           other == IF v.t = "float" /\ v.n % 10 = 0 /\ v.e = 0
                    THEN Digits(v.n \div 10)
                    ELSE IF v.t = "int" THEN Digits(v.n) \o <<".", "0">>
                    ELSE own
       IN  result = IF own \in DOMAIN r THEN r[own]
                    ELSE IF other \in DOMAIN r THEN r[other]
                    ELSE own

\* C10 witness: the float 2022.0 meets a key written "2022" only
C10_Witness ==
    /\ call.op = "get_value_replacement"
    /\ call.col_name = c_year
    /\ call.value = FloatV(20220, 0)
    /\ c_year \in DOMAIN value_replacements(cm)
    /\ s_2022 \in DOMAIN value_replacements(cm)[c_year]
    /\ s_2022f \notin DOMAIN value_replacements(cm)[c_year]
    /\ result = t_Y1

\* the derivation the specification describes: only the first recognized
\* prefix that matches is cut off
PrettifyOnce(col_name) ==
    LET hits == {i \in 1..Len(PrettyPrefixes) : StartsWith(col_name, PrettyPrefixes[i])}
        rest == IF hits = {} THEN col_name
                ELSE DropFirst(col_name,
                         Len(PrettyPrefixes[CHOOSE i \in hits : \A j \in hits : i <= j]))
        words == Split(rest, "_")
    IN  Join([i \in 1..Len(words) |-> Capitalize(words[i])], <<" ">>)

\* C7: with no display name configured, get_pretty_column_name strips at
\* most one recognized prefix, the first that matches (data_model_name gives
\* Model Name).
C7_AtMostOnePrefix ==
    ( /\ call.op = "get_pretty_column_name"
      /\ call.col_name \notin DOMAIN column_mappings(cm) )
    => result = PrettifyOnce(call.col_name)

\* C8: for a name n without a display name whose pretty name p has none
\* either, get_pretty_column_name(p) = p.
C8_PrettyIdempotent ==
    ( /\ call.op = "get_pretty_column_name"
      /\ call.again
      /\ call.first \notin DOMAIN column_mappings(cm)
      /\ call.col_name \notin DOMAIN column_mappings(cm) )
    => result = call.col_name

-----------------------------------------------------------------------------
(* Claims about filtering and rendering *)

Rendered ==
    call.op = "generate_latex_table" /\ call.cols # <<>> /\ result.status = "ok"

\* some column of the row is excluded from calculations / from display
ExcludedFromCalculations(row) ==
    \E j \in DOMAIN df.columns :
        should_exclude_from_calculations(cm, df.columns[j], row.v[df.columns[j]])
ExcludedFromDisplay(row) ==
    \E j \in DOMAIN TableColumns :
        should_exclude_value(cm, TableColumns[j], row.v[TableColumns[j]])

\* the minimum of a column over the rows not excluded from calculations
MinOfCounted(col) ==
    SeriesMin({df.rows[i].v[col] : i \in {r \in DOMAIN df.rows :
                                             ~ExcludedFromCalculations(df.rows[r])}})

\* the data cells of a rendered row
DataCells(row) == {row[k] : k \in {j \in DOMAIN row : ~row[j].extra}}

\* C1: when the table rendered has rows excluded from calculations (also a
\* table a filter or sort step returned), every row is rendered as a data
\* row and each stored column minimum is the minimum over exactly the rows
\* not excluded from calculations.
C1_ExcludedRowsShownNotCounted ==
    ( /\ call.op = "generate_latex_table"
      /\ call.cols # <<>>
      /\ \E i \in DOMAIN df.rows : ExcludedFromCalculations(df.rows[i]) )
    => /\ result.status = "ok"
       /\ Len(result.value.rows) = Len(df.rows)
       /\ \A i \in DOMAIN df.rows :
              {c.value : c \in DataCells(result.value.rows[i])}
                  = {RowValues(df, call.cols, df.rows[i])[k] : k \in DOMAIN call.cols}
       /\ \A col \in DOMAIN last_min_values : last_min_values[col] = MinOfCounted(col)

\* C2: filter_excluded_values keeps exactly the rows no column of which
\* should_exclude_value flags, in their order, also for a table whose labels
\* are not 0..n-1.
C2_KeepsExactlyNonExcluded ==
    call.op = "filter_excluded_values"
    => /\ result.status = "ok"
       /\ df.rows = KeepRows(call.df.rows,
                        [i \in DOMAIN call.df.rows |-> ~ExcludedFromDisplay(call.df.rows[i])])

\* the underline setting in force for a column in the last render
EffectiveUnderline(col) ==
    IF ~call.override.none /\ col \in DOMAIN call.override.d
    THEN call.override.d[col]
    ELSE get_column_underline(cm, col)

HasUnderline(text) == \E i \in DOMAIN text : text[i] = "\\underline{"

\* $...\underline{...}$: the underline inside the math-mode delimiters
UnderlinedInMath(text) ==
    /\ Len(text) >= 4
    /\ text[1] = "$" /\ text[Len(text)] = "$"
    /\ \E i \in 2..(Len(text) - 2) : text[i] = "\\underline{"
    /\ text[Len(text) - 1] = "}"

\* C3: no rendered cell of a column whose effective underline setting is
\* false is underlined, and for a column with an override entry the entry
\* decides: a minimum is stored for it exactly when the entry is true (and
\* the column is numeric and not the leading one), and its numeric cells
\* that no replacement fires for are underlined exactly when the entry is
\* true and the cell is at the stored minimum.
C3_NoUnderlineWhenDisabled ==
    Rendered =>
        \A r \in DOMAIN result.value.rows : \A c \in DataCells(result.value.rows[r]) :
            /\ ~Truthy(EffectiveUnderline(c.col)) => ~HasUnderline(c.text)
            /\ (~call.override.none /\ c.col \in DOMAIN call.override.d) =>
                 /\ c.col \in DOMAIN last_min_values
                       <=> /\ Truthy(call.override.d[c.col])
                           /\ IsNumericDtype(df.dtype[c.col])
                           /\ c.col # call.cols[1]
                 /\ ( /\ IsNumber(c.value) /\ c.col # call.cols[1]
                      /\ get_value_replacement(cm, c.col, c.value) = PyStr(c.value) )
                    => ( HasUnderline(c.text)
                           <=> /\ Truthy(call.override.d[c.col])
                               /\ Close(c.value, last_min_values[c.col]) )

\* C3 witness: the configuration underlines score, the override says not to,
\* and the score cell holding the column minimum is rendered without it
C3_Witness ==
    /\ Rendered
    /\ get_column_underline(cm, c_score) = True
    /\ ~call.override.none /\ call.override.d[c_score] = False
    /\ \E r \in DOMAIN result.value.rows : \E c \in DataCells(result.value.rows[r]) :
           /\ c.col = c_score
           /\ \A i \in DOMAIN df.rows : NumLeq(c.value, df.rows[i].v[c_score])
           /\ ~HasUnderline(c.text)
           /\ c.text[1] = "$"

\* C4: a cell whose value get_value_replacement replaces is rendered as
\* exactly the replacement, in the leading and in every other column.
C4_ReplacementVerbatim ==
    Rendered =>
        \A r \in DOMAIN result.value.rows : \A c \in DataCells(result.value.rows[r]) :
            get_value_replacement(cm, c.col, c.value) # PyStr(c.value)
            => c.text = get_value_replacement(cm, c.col, c.value)

\* C4 witness: a number of a non-leading column with a format and underline
\* configured is rendered as its replacement
C4_Witness ==
    /\ Rendered
    /\ \E r \in DOMAIN result.value.rows : \E c \in DataCells(result.value.rows[r]) :
           /\ c.col = c_year /\ c.col # call.cols[1]
           /\ IsNumber(c.value)
           /\ get_column_format(cm, c_year) = f_d
           /\ Truthy(EffectiveUnderline(c_year))
           /\ c.text = t_Y1

\* C9: in a non-leading numeric column with underlining enabled, a cell no
\* replacement fires for is underlined inside math mode exactly when its
\* value is within 1e-10 of the column minimum over the rows not excluded
\* from calculations.
C9_UnderlineIffAtMinimum ==
    Rendered =>
        \A r \in DOMAIN result.value.rows : \A c \in DataCells(result.value.rows[r]) :
            ( /\ c.col # call.cols[1]
              /\ IsNumber(c.value)
              /\ Truthy(EffectiveUnderline(c.col))
              /\ get_value_replacement(cm, c.col, c.value) = PyStr(c.value) )
            => ( UnderlinedInMath(c.text) <=> Close(c.value, MinOfCounted(c.col)) )

-----------------------------------------------------------------------------
(* Claims about extra columns and the empty selection *)

\* C11: with one extra column at position 1 and two columns selected, the
\* extra display name is the second of three header cells, the extra value
\* is the second of three cells in every data row, between the two real
\* cells, and the column specifier is exactly "ccc".
C11_ExtraColumnBetweenTwo ==
    ( /\ Rendered
      /\ Len(call.cols) = 2
      /\ Len(extra_columns(cm)) = 1
      /\ extra_columns(cm)[1].position = 1 )
    => /\ result.value.col_spec = <<"c", "c", "c">>
       /\ Len(result.value.headers) = 3
       /\ result.value.headers[2]
              = <<"\\textbf{">> \o extra_columns(cm)[1].display_name \o <<"}">>
       /\ \A k \in {1, 3} :
              result.value.headers[k]
                  = <<"\\textbf{">>
                    \o get_pretty_column_name(cm, call.cols[IF k = 1 THEN 1 ELSE 2])
                    \o <<"}">>
       /\ Len(result.value.rows) = Len(df.rows)
       /\ \A r \in DOMAIN result.value.rows :
              LET row == result.value.rows[r]
              IN  /\ Len(row) = 3
                  /\ ~row[1].extra /\ row[1].col = call.cols[1]
                  /\ row[2].extra /\ row[2].text = extra_columns(cm)[1].value
                  /\ ~row[3].extra /\ row[3].col = call.cols[2]

\* C11 witness: a table of two rows or more rendered with two columns and
\* the checkmark column at position 1
C11_Witness ==
    /\ Rendered
    /\ Len(call.cols) = 2
    /\ Len(extra_columns(cm)) = 1
    /\ extra_columns(cm)[1].position = 1
    /\ Len(result.value.rows) >= 2
    /\ \A r \in DOMAIN result.value.rows : result.value.rows[r][2].text = t_checkmark

\* C13: with no column selected generate_latex_table returns exactly the
\* message "Please select at least one column" and nothing else happens: no
\* minimum is computed or stored and no exception of the minimum
\* computation or of a configuration lookup surfaces, whatever the table and
\* the configuration are.
C13_EmptySelectionMessage ==
    (call.op = "generate_latex_table" /\ call.cols = <<>>)
    => /\ result.status = "ok"
       /\ result.value = NoColumnsMessage
       /\ last_min_values = <<>>

\* C13 witness: nothing selected for a table on which the minimum
\* computation would have raised IndexError
C13_Witness ==
    /\ call.op = "generate_latex_table" /\ call.cols = <<>>
    /\ result.status = "ok"
    /\ _calculate_min_values(cm, df, <<>>, call.override).status = "IndexError"

\* C12: for every configuration of extra columns and every non-empty
\* selection the header cells, the cells of every data row and the letters
\* of the column specifier each number (selected columns + configured
\* extra columns).
C12_CountsAgree ==
    Rendered =>
        LET n == Len(call.cols) + Len(extra_columns(cm))
        IN  /\ Len(result.value.col_spec) = n
            /\ Len(result.value.headers) = n
            /\ \A r \in DOMAIN result.value.rows : Len(result.value.rows[r]) = n

\* the text holds the piece somewhere
HasInfix(text, piece) ==
    \E i \in 1..(Len(text) - Len(piece) + 1) :
        SubSeq(text, i, i + Len(piece) - 1) = piece

\* the numeric format configured for the column cannot be applied to the
\* value: there is one, and it is no string or Python rejects it
FormatFails(col, value) ==
    LET column_format == get_column_format(cm, col)
    IN  /\ IsNumber(value)
        /\ column_format # None /\ column_format # <<>>
        /\ (~IsStr(column_format) \/ ApplyFormat(value, column_format).status # "ok")

\* C20: a numeric format that cannot be applied to a cell never aborts the
\* render of a table with positional labels: the complete table is
\* returned, a non-leading numeric cell whose format fails shows the value
\* with the given number of decimals in math mode and a leading cell shows
\* the plain string, whatever makes the format step fail.
C20_FormatFailureFallsBack ==
    ( /\ call.op = "generate_latex_table" /\ call.cols # <<>>
      /\ \A i \in DOMAIN df.rows : df.rows[i].label = i - 1 )
    => /\ result.status = "ok"
       /\ Len(result.value.rows) = Len(df.rows)
       /\ \A r \in DOMAIN result.value.rows : \A c \in DataCells(result.value.rows[r]) :
              ( /\ FormatFails(c.col, c.value)
                /\ get_value_replacement(cm, c.col, c.value) = PyStr(c.value) )
              => IF c.col = call.cols[1]
                 THEN c.text = PyStr(c.value)
                 ELSE /\ c.text[1] = "$" /\ c.text[Len(c.text)] = "$"
                      /\ HasInfix(c.text, Fixed(c.value, call.decimal_places))

-----------------------------------------------------------------------------
(* Claims about ad hoc filters, ad hoc sorts and the declarative sort *)

ColumnsOf(tbl) == {tbl.columns[j] : j \in DOMAIN tbl.columns}

\* the value as a pair that orders numbers: tenths, then the steps below
Below(a, b) == Tenths(a) < Tenths(b) \/ (Tenths(a) = Tenths(b) /\ a.e < b.e)
Same(a, b)  == Tenths(a) = Tenths(b) /\ a.e = b.e

\* what the claim asks of one value under one filter
Satisfies(v, info) ==
    CASE info.type = "range" ->
            /\ (info.min.t # "NoneType" => ~Below(v, info.min))
            /\ (info.max.t # "NoneType" => ~Below(info.max, v))
      [] info.type = "greater_than" -> Below(info.value, v)
      [] info.type = "less_than" -> Below(v, info.value)
      [] info.type = "equal_to" ->
            IF IsNumber(info.value) THEN IsNumber(v) /\ Same(v, info.value)
            ELSE PyStr(v) = info.value.s

\* the filters can be evaluated on the table: their columns are there, and
\* a filter that orders values has numbers to order
Applicable(tbl, active_filters) ==
    \A k \in DOMAIN active_filters :
        /\ active_filters[k][1] \in ColumnsOf(tbl)
        /\ (active_filters[k][2].type # "equal_to"
                => IsNumericDtype(tbl.dtype[active_filters[k][1]]))

\* C14: apply_filters returns exactly the rows that satisfy every active
\* filter, in their original order: range bounds are inclusive and each
\* optional, greater_than and less_than are strict, equal_to compares
\* numbers with a numeric filter value and string forms otherwise, and no
\* filter leaves the table as it is.
C14_FiltersConjunction ==
    (call.op = "apply_filters" /\ Applicable(call.df, call.arg))
    => /\ result.status = "ok"
       /\ df.columns = call.df.columns
       /\ df.rows = KeepRows(call.df.rows,
                        [i \in DOMAIN call.df.rows |->
                            \A k \in DOMAIN call.arg :
                                Satisfies(call.df.rows[i].v[call.arg[k][1]], call.arg[k][2])])
       /\ (call.arg = <<>> => df = call.df)

\* C14 witness: a strict filter whose bound is the value of a row drops
\* that row and keeps a row a step above it
C14_Witness ==
    /\ call.op = "apply_filters"
    /\ Len(call.arg) = 1
    /\ call.arg[1][2].type = "greater_than"
    /\ result.status = "ok"
    /\ \E i \in DOMAIN call.df.rows :
           /\ Same(call.df.rows[i].v[call.arg[1][1]], call.arg[1][2].value)
           /\ \A j \in DOMAIN df.rows : df.rows[j].label # call.df.rows[i].label
    /\ df.rows # <<>>
    /\ Len(df.rows) < Len(call.df.rows)

\* where the row stood in the table the call was given
InputPosition(row) ==
    CHOOSE i \in DOMAIN call.df.rows : call.df.rows[i].label = row.label

\* the rows returned are the rows given, each once
SameRows ==
    /\ Len(df.rows) = Len(call.df.rows)
    /\ {df.rows[i] : i \in DOMAIN df.rows} = {call.df.rows[i] : i \in DOMAIN call.df.rows}

\* C15: sort_by_custom_order never raises and returns the rows ordered
\* ascending by the vector of get_sort_order ranks over the configured
\* sort columns the table has, the first the primary one; rows of equal
\* vectors keep their input order; with no such column the table is
\* returned unchanged.
C15_CustomOrderStable ==
    call.op = "sort_by_custom_order"
    => LET configured == IF "columns" \in DOMAIN row_sorting(cm)
                         THEN row_sorting(cm).columns ELSE <<>>
           present == SelectSeq(configured, LAMBDA col : col \in ColumnsOf(call.df))
       IN  /\ result.status = "ok"
           /\ SameRows
           /\ \A i, j \in DOMAIN df.rows :
                  i < j => /\ ~RankBefore(cm, df.rows[j], df.rows[i], present, 1)
                           /\ ~RankBefore(cm, df.rows[i], df.rows[j], present, 1)
                                  => InputPosition(df.rows[i]) < InputPosition(df.rows[j])

\* C16: apply_sort returns the rows ordered by the first key in its
\* direction, ties broken by the next key and so on, rows equal on every
\* key keeping their input order, with one key as with several; no key
\* leaves the table as it is.
C16_SortStable ==
    ( /\ call.op = "apply_sort"
      /\ \A k \in DOMAIN call.arg : call.arg[k][1] \in ColumnsOf(call.df) )
    => /\ result.status = "ok"
       /\ SameRows
       /\ \A i, j \in DOMAIN df.rows :
              i < j => /\ ~Before(df.rows[j], df.rows[i], call.arg, 1)
                       /\ ~Before(df.rows[i], df.rows[j], call.arg, 1)
                              => InputPosition(df.rows[i]) < InputPosition(df.rows[j])

\* C17: an ad hoc filter or sort key naming a column the table lacks ends
\* in an exception and leaves no filtered or sorted table, and the
\* declarative sort never raises.
C17_AbsentColumnRaises ==
    /\ ( /\ call.op \in {"apply_filters", "apply_sort"}
         /\ \E k \in DOMAIN call.arg : call.arg[k][1] \notin ColumnsOf(call.df) )
       => (result.status # "ok" /\ df = call.df)
    /\ call.op = "sort_by_custom_order" => result.status = "ok"

-----------------------------------------------------------------------------
(* Claims about loading configurations *)

\* C18: every accessor returns a value and raises nothing, for every column
\* and value, under every user configuration that loaded: no file, an empty
\* document, a document lacking keys, a document with a key of no value.
C18_AccessorsTotal ==
    call.op \in Accessors => result.status = "ok"

\* the manager with the default configuration alone
DefaultsOnly == [config |-> <<>>, default_config |-> HardcodedDefaults]

\* C19: loading a path where no file is raises nothing and leaves every
\* accessor answering as the default configuration alone does; loading a
\* file that does not parse raises the parse error to the caller.
C19_MissingFileMeansDefaults ==
    call.op = "load_config_file"
    => /\ ConfigFiles[call.path].kind = "absent"
          => /\ result.status = "ok"
             /\ \A op \in Accessors, col_name \in LoadColumns, value \in LoadValues :
                    AccessorOutcome(null_config, cm, op, col_name, value)
                        = AccessorOutcome(NoNulls, DefaultsOnly, op, col_name, value)
       /\ ConfigFiles[call.path].kind = "malformed" => result.status = "YAMLError"

\* C19 witness: a manager holding a user configuration is sent to a path
\* where no file is
C19_Witness ==
    /\ call.op = "load_config_file"
    /\ ConfigFiles[call.path].kind = "absent"
    /\ call.replaced
    /\ result.status = "ok"
    /\ config_path = call.path

-----------------------------------------------------------------------------
(* Claims about the two textual forms of a number *)

\* C21: get_sort_order, should_exclude_value and
\* should_exclude_from_calculations answer the same for an integer n and
\* for float(n), whichever of the forms "2022" and "2022.0" the
\* configuration is written in.
C21_NumericFormsAgree ==
    ( /\ call.op \in {"get_sort_order", "should_exclude_value",
                      "should_exclude_from_calculations"}
      /\ call.value.t = "int" )
    => result = Answer(cm, [call EXCEPT !.value = ToFloat(call.value)])

-----------------------------------------------------------------------------
(* Claims about replacing the user configuration *)

\* what ConfigManager(path) holds when it is constructed
Fresh(path) == _load_config(path).value

\* C22: after any sequence of load_config_file calls that succeeded, the
\* manager is as one freshly constructed on the last loaded path: the user
\* layer is the document at that path and nothing else, every accessor
\* answers as the fresh manager's does, and the default layer is the one
\* the manager was constructed with.
C22_LoadReplacesUserLayer ==
    _load_config(config_path).status = "ok"
    => /\ user_config = Fresh(config_path).config
       /\ null_config = Fresh(config_path).nulls
       /\ default_config = HardcodedDefaults
       /\ \A op \in Accessors, col_name \in LoadColumns, value \in LoadValues :
              AccessorOutcome(null_config, cm, op, col_name, value)
                  = AccessorOutcome(Fresh(config_path).nulls,
                                    [config |-> Fresh(config_path).config,
                                     default_config |-> HardcodedDefaults],
                                    op, col_name, value)

\* C22 witness: a manager holding the column formats of table_config is
\* sent to the document general, which has none, and holds none afterwards
C22_Witness ==
    /\ call.op = "load_config_file"
    /\ call.previous = "table_config"
    /\ call.path = "general"
    /\ result.status = "ok"
    /\ "column_formats" \in DOMAIN Fresh("table_config").config
    /\ "column_formats" \notin DOMAIN user_config
    /\ AccessorOutcome(null_config, cm, "get_column_format", c_score, IntV(2022)) = Ok(None)

\* C29: when load_config_file fails on a file that does not parse, the
\* manager is as before the call: config_path is the path it had, and the
\* user configuration is still the document at that path, so the path
\* reported and the values answered belong to one file.
C29_FailedLoadChangesNothing ==
    (call.op = "load_config_file" /\ result.status = "YAMLError")
    => /\ config_path = call.previous
       /\ _load_config(call.previous).status = "ok"
              => /\ user_config = Fresh(call.previous).config
                 /\ null_config = Fresh(call.previous).nulls

-----------------------------------------------------------------------------
(* Claims about the columns of the tables returned *)

\* C23: every table apply_filters, apply_sort, filter_excluded_values,
\* sort_by_custom_order and sort_by_model_order return has exactly the
\* columns of the table given, also when that table has a column named
\* like a rank column (_sort_<col>, _model_order), and generate_latex_table
\* leaves the columns of its table as they are.
C23_ColumnsKept ==
    /\ ( /\ call.op \in {"apply_filters", "apply_sort", "filter_excluded_values",
                          "sort_by_custom_order", "sort_by_model_order"}
         /\ result.status = "ok" )
       => ColumnsOf(df) = ColumnsOf(call.df)
    /\ call.op = "generate_latex_table"
       => \A i \in DOMAIN df.rows : DOMAIN df.rows[i].v = ColumnsOf(df)

-----------------------------------------------------------------------------
(* Claims about where extra columns stand *)

\* the 1-based places of the header cells showing the display name, and of
\* the cells of a rendered row showing the value, of an extra column
HeaderPlaces(ec) ==
    {i \in DOMAIN result.value.headers :
        result.value.headers[i] = <<"\\textbf{">> \o ec.display_name \o <<"}">>}
CellPlaces(ec, row) == {i \in DOMAIN row : row[i].extra /\ row[i].text = ec.value}

\* C24: for every configuration of extra columns and every non-empty
\* selection, each extra column stands in the header, and at the same place
\* there as its value stands in every data row, in whatever order the
\* extra columns are listed.
C24_HeaderOverItsCells ==
    Rendered =>
        \A k \in DOMAIN extra_columns(cm) :
            /\ HeaderPlaces(extra_columns(cm)[k]) # {}
            /\ \A r \in DOMAIN result.value.rows :
                   CellPlaces(extra_columns(cm)[k], result.value.rows[r])
                       = HeaderPlaces(extra_columns(cm)[k])

-----------------------------------------------------------------------------
(* Claims about the two configuration layers *)

\* C25: get_column_underline returns the column's own entry of
\* column_underline when there is one, otherwise underline_min_values when
\* the user or the default configuration defines it, otherwise
\* column_underline['default'] (False when absent); the result is always a
\* boolean.
C25_UnderlineFallbacks ==
    call.op = "get_column_underline"
    => /\ result \in {True, False}
       /\ result = IF call.col_name \in DOMAIN column_underline(cm)
                    THEN column_underline(cm)[call.col_name]
                    ELSE IF "underline_min_values" \in DOMAIN user_config \cup DOMAIN default_config
                    THEN underline_min_values(cm)
                    ELSE Get(column_underline(cm), c_default, False)

\* the answer of any accessor a call names, from manager self
AnswerOf(self, c) ==
    IF c.op = "get_column_underline" THEN get_column_underline(self, c.col_name)
    ELSE Answer(self, c)

\* C27: the two layers are merged per top-level key: for a key the user
\* configuration has, nothing the default configuration holds under that
\* key contributes to any accessor's answer, and for a key it lacks the
\* default configuration's value is used, so every accessor answers as on
\* the one layer made of the user's keys and, for the other keys, the
\* default's.
C27_MergedPerTopLevelKey ==
    call.op \in AccessorOps \cup {"get_column_underline"}
    => /\ result = AnswerOf([config |-> user_config,
                             default_config |->
                                 [k \in DOMAIN default_config \ DOMAIN user_config
                                     |-> default_config[k]]], call)
       /\ result = AnswerOf([config |-> <<>>,
                             default_config |->
                                 [k \in DOMAIN default_config \cup DOMAIN user_config |->
                                     IF k \in DOMAIN user_config THEN user_config[k]
                                     ELSE default_config[k]]], call)

\* C27 witness: the user's row_filtering defines exclude_values only, the
\* default document excludes the year 2022 from calculations, and the
\* value is not excluded from calculations
C27_Witness ==
    /\ call.op = "should_exclude_from_calculations"
    /\ call.col_name = c_year
    /\ call.value = IntV(2022)
    /\ "row_filtering" \in DOMAIN user_config
    /\ "exclude_from_calculations" \notin DOMAIN user_config.row_filtering
    /\ should_exclude_from_calculations([config |-> <<>>, default_config |-> default_config],
                                        c_year, IntV(2022))
    /\ result = FALSE

-----------------------------------------------------------------------------
(* Claims about the decoration prefix and the leading column *)

\* the cell is rendered as a number: it is a number no replacement fires for
ShownAsNumber(c) ==
    IsNumber(c.value) /\ get_value_replacement(cm, c.col, c.value) = PyStr(c.value)

\* the prefix the claim assigns to a cell: that of the first configured
\* suffix of the cell's column that str(value) ends with
ClaimedPrefix(c) ==
    LET patterns == get_column_patterns(cm, c.col)
        suffixes == IF "suffixes" \in DOMAIN patterns THEN patterns.suffixes ELSE <<>>
        hits == {i \in DOMAIN suffixes : EndsWith(PyStr(c.value), suffixes[i][1])}
    IN  IF hits = {} THEN <<>>
        ELSE suffixes[CHOOSE i \in hits : \A j \in hits : i <= j][2]

\* the texts a number can be shown as: with the format of its column, or
\* with the decimals asked for
NumberTexts(c) ==
    {Fixed(c.value, call.decimal_places)}
    \cup (IF /\ IsStr(get_column_format(cm, c.col))
              /\ ApplyFormat(c.value, get_column_format(cm, c.col)).status = "ok"
           THEN {ApplyFormat(c.value, get_column_format(cm, c.col)).value} ELSE {})

\* the prefixes the configurations hold
PrefixMarks == {"\\dagger", "\\ast"}

\* C26: a number shown in a column after the first carries, inside the
\* math-mode delimiters and before the number or its underline, the prefix
\* of the first configured suffix of its column that the cell's own
\* str(value) ends with, and nothing when no suffix matches or the pattern
\* entry has no suffixes key; a text cell and a cell of the leading column
\* carry no prefix.
C26_PrefixFromCellValue ==
    Rendered =>
        \A r \in DOMAIN result.value.rows : \A c \in DataCells(result.value.rows[r]) :
            IF c.col # call.cols[1] /\ ShownAsNumber(c)
            THEN \E number \in NumberTexts(c) :
                     \/ c.text = MathMode(ClaimedPrefix(c) \o number)
                     \/ c.text = MathMode(ClaimedPrefix(c) \o Underlined(number))
            ELSE \A i \in DOMAIN c.text : c.text[i] \notin PrefixMarks

\* C26 witness: a score both configured suffixes match carries the prefix
\* of the first, and in the same table a year led by text carries the prefix
\* of its second suffix, the first not matching "2023"
C26_Witness ==
    /\ Rendered
    /\ "suffixes" \in DOMAIN get_column_patterns(cm, c_score)
    /\ Len(get_column_patterns(cm, c_score).suffixes) = 2
    /\ \E r \in DOMAIN result.value.rows : \E c, d \in DataCells(result.value.rows[r]) :
           /\ c.col = c_score /\ c.col # call.cols[1]
           /\ EndsWith(PyStr(c.value), <<"3">>) /\ EndsWith(PyStr(c.value), <<".", "3">>)
           /\ c.text[2] = "\\dagger"
           /\ d.col = c_year /\ d.col # call.cols[1] /\ d.value = IntV(2023)
           /\ d.text[2] = "\\dagger"

-----------------------------------------------------------------------------
(* Claims about the loops of _build_table_rows *)

\* for each cell the while loop makes no more passes than extra columns
\* are configured, and each completed row is the row generate_latex_table
\* shows
PassesBounded ==
    /\ call.iterations <= Len(extra_columns(cm))
    /\ (call.pc = "row" /\ call.r > 1)
       => result.value = _build_table_rows(cm, df, call.cols, last_min_values,
                                           call.decimal_places, NoOverride)[call.r - 1]

\* C28: building the rows terminates for every table, every non-empty
\* selection and every configuration of extra columns (several at one
\* position, negative and very large positions): the while loop that
\* places extra columns before a cell makes at most one pass per
\* configured extra column for each cell, and _build_table_rows returns.
C28_RowsTerminate == []PassesBounded /\ <>(call.pc = "done")

\* C28 witness: the rows of a table of two rows or more are complete, and
\* before some cell the while loop made as many passes as the three extra
\* columns configured
C28_Witness ==
    /\ call.op = "_build_table_rows" /\ call.pc = "done"
    /\ Len(df.rows) >= 2
    /\ Len(extra_columns(cm)) = 3
    /\ call.most = 3

=============================================================================
